---- MODULE Spec2Model ----
(***************************************************************************)
(* django-omnitenant: the tenant context stack, the database-per-tenant    *)
(* backend (bind / activate / deactivate / migrate) and the TenantRouter   *)
(* routing and migration-permission decisions.                             *)
(*                                                                         *)
(* Python values are modelled as follows: None is the string "None"; a     *)
(* dict is a function whose DOMAIN is its key set; a text that the code    *)
(* searches character by character (the connection "options" string) is a  *)
(* sequence of one-character strings; a result that may be True, False,    *)
(* None or an exception is one of "True", "False", "None", "raise".        *)
(***************************************************************************)
EXTENDS Integers, Sequences, FiniteSets, TLC

\* Bound: the deepest nesting of open tenant activations in one context.
MaxDepth == 2

None == "None"

\* Execution contexts (threads / tasks); each owns its own stacks and its
\* own thread-local default connection.
Contexts == {"ctx1", "ctx2"}
\* The contexts that run operations under Spec.
Running == {"ctx1"}

----------------------------------------------------------------------------
(* Texts searched by substring: sequences of characters.                   *)

S_search_path == <<"s","e","a","r","c","h","_","p","a","t","h">>
S_public == <<"p","u","b","l","i","c">>
S_dash_c == <<"-","c"," ">>

\* "-c search_path=public"
OptPublic == S_dash_c \o S_search_path \o <<"=">> \o S_public
\* "-c search_path=t1"
OptTenantSchema == S_dash_c \o S_search_path \o <<"=","t","1">>
\* "" : no options
OptEmpty == << >>

\* The options texts a master database is configured with.
OptionStrings == {OptEmpty, OptPublic, OptTenantSchema}

\* Python's `needle in hay` on strings.
Contains(hay, needle) ==
    \E i \in 0..(Len(hay) - Len(needle)) :
        \A j \in 1..Len(needle) : hay[i + j] = needle[j]

----------------------------------------------------------------------------
(* Settings.                                                               *)

MASTER_DB_ALIAS == "default"
DEFAULT_SCHEMA_NAME == S_public

EmptyDict == [k \in {} |-> None]

\* dict.get(key, default)
Get(d, key, default) == IF key \in DOMAIN d THEN d[key] ELSE default

\* dict.get(key) of a key holding a dict; an absent key gives None, which
\* is as falsy as the empty dict that stands for it here.
GetDict(d, key) == IF key \in DOMAIN d THEN d[key] ELSE EmptyDict

\* Python truthiness of a text config value: None and "" are falsy.
Truthy(v) == v \notin {None, ""}

\* Python's `a or b` on scalar config values.
Or(a, b) == IF Truthy(a) THEN a ELSE b

\* Python's `a or b` on dicts: the empty dict is falsy.
OrDict(a, b) == IF DOMAIN a # {} THEN a ELSE b

----------------------------------------------------------------------------
(* Tenants: fixed records of the master database.                          *)

Tenants == {"acme", "bare", "sch"}

isolation_type(t) ==
    CASE t = "sch"  -> "SCHEMA"
      [] t = "bare" -> "TABLE"
      [] OTHER      -> "DATABASE"

\* tenant.config.get("db_config", {})
db_config(t) ==
    CASE t = "acme" -> [NAME |-> "acme_db"]
      [] OTHER      -> EmptyDict

\* The schema a schema-isolated tenant lives in.
schema_name(t) == "sch_schema"

Schemas == {"public", "sch_schema"}

----------------------------------------------------------------------------
(* State.                                                                  *)

VARIABLES
    DATABASES,        \* settings.DATABASES: alias -> configuration dict
    pg_databases,     \* the databases that exist on the PostgreSQL server
    batch,            \* per context: the migratetenants run in progress
    pending,          \* per context: the backend call that is between two steps
    tenant_stack,     \* per context: TenantContext's stack of tenants
    db_alias_stack,   \* per context: TenantContext's stack of aliases
    schema,           \* per context: active schema of django.db.connection
    previous_schema,  \* per context: backend object -> its previous_schema
    frames,           \* per context: the open with / try blocks, innermost last
    last              \* per context: how the last finished operation ended

vars == <<DATABASES, pg_databases, batch, pending, tenant_stack,
          db_alias_stack, schema, previous_schema, frames, last>>

\* What the operations on the tenant context and on the registry leave
\* alone: the database server, the batch command and the position of a
\* backend call another thread may interleave with.
outside == <<pg_databases, batch, pending>>

\* Backend objects a context can hold at once: one per open block.
BackendIds == 1..MaxDepth
Unset == "unset"

----------------------------------------------------------------------------
(* DatabaseTenantBackend.get_alias_and_config                              *)

\* The alias: explicit ALIAS, else NAME, else the master alias.
AliasOf(cfg) ==
    Or(Get(cfg, "ALIAS", None), Or(Get(cfg, "NAME", None), MASTER_DB_ALIAS))

\* resolved_config["TEST"] as the dict literal builds it for db_config
\* cfg: the tenant's TEST when cfg has the key, else the master entry's,
\* else a new dict.
resolved_test(dbs, cfg) ==
    IF "TEST" \in DOMAIN cfg THEN cfg.TEST
    ELSE GetDict(Get(dbs, MASTER_DB_ALIAS, EmptyDict), "TEST")

ResolvedTest(dbs, t) == resolved_test(dbs, db_config(t))

\* if not test.get("NAME"): test["NAME"] = name
FilledTest(test, name) ==
    IF Truthy(Get(test, "NAME", None)) THEN test
    ELSE [k \in DOMAIN test \cup {"NAME"} |->
             IF k = "NAME" THEN name ELSE test[k]]

\* The hard defaults of the dict literal.
DefaultEngine == "django_omnitenant.backends.postgresql"

\* The dict get_alias_and_config returns for db_config cfg, read against
\* registry `dbs`: `or` for the connection fields, key presence for the
\* flags and for TEST.
resolved_config(dbs, cfg) ==
    LET base == Get(dbs, MASTER_DB_ALIAS, EmptyDict)
        name == Or(Get(cfg, "NAME", None), Get(base, "NAME", None))
    IN  [ENGINE  |-> Or(Get(cfg, "ENGINE", None),
                        Get(base, "ENGINE", DefaultEngine)),
         NAME    |-> name,
         HOST    |-> Or(Get(cfg, "HOST", None), Get(base, "HOST", None)),
         PORT    |-> Or(Get(cfg, "PORT", None), Get(base, "PORT", None)),
         OPTIONS |-> OrDict(GetDict(cfg, "OPTIONS"), GetDict(base, "OPTIONS")),
         ATOMIC_REQUESTS |->
             IF "ATOMIC_REQUESTS" \in DOMAIN cfg THEN cfg.ATOMIC_REQUESTS
             ELSE Get(base, "ATOMIC_REQUESTS", FALSE),
         TEST    |-> FilledTest(resolved_test(dbs, cfg), name)]

\* The configuration get_alias_and_config(tenant) returns, read against
\* registry `dbs` (the keys the operations here use).
ResolvedConfig(dbs, t) ==
    LET r == resolved_config(dbs, db_config(t))
    IN  [NAME |-> r.NAME, HOST |-> r.HOST, PORT |-> r.PORT,
         OPTIONS |-> r.OPTIONS, TEST |-> r.TEST]

\* The registry once get_alias_and_config has returned for db_config cfg:
\* the copy of the master entry is shallow, so when the TEST dict comes
\* from the master entry the NAME is filled in the master entry's own dict.
registry_after_resolve(dbs, cfg) ==
    IF /\ "TEST" \notin DOMAIN cfg
       /\ MASTER_DB_ALIAS \in DOMAIN dbs
       /\ "TEST" \in DOMAIN dbs[MASTER_DB_ALIAS]
    THEN [dbs EXCEPT ![MASTER_DB_ALIAS].TEST =
              FilledTest(@, resolved_config(dbs, cfg).NAME)]
    ELSE dbs

RegistryAfterResolve(dbs, t) == registry_after_resolve(dbs, db_config(t))

get_alias_and_config(dbs, t) ==
    [alias |-> AliasOf(db_config(t)), config |-> ResolvedConfig(dbs, t),
     registry |-> RegistryAfterResolve(dbs, t)]

\* settings.DATABASES[alias] = config
Register(dbs, alias, config) ==
    [a \in DOMAIN dbs \cup {alias} |-> IF a = alias THEN config ELSE dbs[a]]

----------------------------------------------------------------------------
(* TenantContext: per-context stacks of tenants and aliases.               *)

Top(stack) == stack[Len(stack)]
Pop(stack) == SubSeq(stack, 1, Len(stack) - 1)

\* TenantContext.get_tenant(): the innermost tenant, None when none is active.
get_tenant(c) == IF tenant_stack[c] = << >> THEN None ELSE Top(tenant_stack[c])

\* TenantContext.get_db_alias(): the innermost alias, None when none is active.
get_db_alias(c) ==
    IF db_alias_stack[c] = << >> THEN None ELSE Top(db_alias_stack[c])

\* TenantContext.push_db_alias / pop_db_alias on one context's stack.
push_db_alias(stack, alias) == Append(stack, alias)
pop_db_alias(stack) == Pop(stack)

\* TenantContext.push_tenant / pop_tenant on one context's stack.
push_tenant(stack, t) == Append(stack, t)

pop_tenant_never(stack) == stack

pop_tenant(stack) == Pop(stack)

----------------------------------------------------------------------------
(* utils.get_active_schema_name and utils.get_tenant_backend               *)

\* SELECT current_schema() on the context's connection; when the query
\* fails (query_ok = FALSE) the function answers "public".
get_active_schema_name(c, query_ok) ==
    IF query_ok THEN schema[c] ELSE "public"

get_tenant_backend(t) ==
    IF isolation_type(t) = "SCHEMA" THEN "SchemaTenantBackend"
    ELSE "DatabaseTenantBackend"

----------------------------------------------------------------------------
(* DatabaseTenantBackend: bind, activate, deactivate.                      *)

\* bind(): settings.DATABASES[db_alias] = db_config
bind(dbs, t) ==
    LET r == get_alias_and_config(dbs, t)
    IN  Register(r.registry, r.alias, r.config)

\* The alias activate() pushes: ALIAS of the backend's db_config, else
\* NAME, else the master alias.
ActivatedAliasIgnoringName(t) ==
    Or(Get(db_config(t), "ALIAS", None), MASTER_DB_ALIAS)

ActivatedAlias(t) ==
    Or(Get(db_config(t), "ALIAS", None),
       Or(Get(db_config(t), "NAME", None), MASTER_DB_ALIAS))

\* The registry after activate()'s lazy bind.
LazyBind(dbs, t) ==
    IF ActivatedAlias(t) \notin DOMAIN dbs THEN bind(dbs, t) ELSE dbs

\* The schema activate() forces on the connection.
ActivatedSchema(cls, t) ==
    IF cls = "SchemaTenantBackend" THEN schema_name(t) ELSE "public"

\* activate() pushing the alias on a stack that all contexts share.
activate_context_shared(c, b, cls, t, query_ok) ==
    /\ db_alias_stack' =
         [x \in DOMAIN db_alias_stack |->
             push_db_alias(db_alias_stack[x], ActivatedAlias(t))]
    /\ previous_schema' =
         [previous_schema EXCEPT ![c][b] = get_active_schema_name(c, query_ok)]
    /\ schema' = [schema EXCEPT ![c] = ActivatedSchema(cls, t)]

\* activate() after its lazy bind: push the alias, save the active schema,
\* force the connection to the backend's schema.
activate_context(c, b, cls, t, query_ok) ==
    /\ db_alias_stack' =
         [db_alias_stack EXCEPT ![c] = push_db_alias(@, ActivatedAlias(t))]
    /\ previous_schema' =
         [previous_schema EXCEPT ![c][b] = get_active_schema_name(c, query_ok)]
    /\ schema' = [schema EXCEPT ![c] = ActivatedSchema(cls, t)]

\* activate() of backend object b of class cls for tenant t in context c,
\* called when the registry is dbs.
activate(dbs, c, b, cls, t, query_ok) ==
    /\ DATABASES' = LazyBind(dbs, t)
    /\ activate_context(c, b, cls, t, query_ok)

\* The alias stack after deactivate().
DeactivatedAliasesKept(stack) == stack

DeactivatedAliases(stack) == pop_db_alias(stack)

\* The schema deactivate() leaves on the connection: previous_schema of
\* the backend object; without that attribute set_schema is never reached.
RestoredSchema(c, b) ==
    IF previous_schema[c][b] = Unset THEN schema[c] ELSE previous_schema[c][b]

\* Backend objects still referenced by the blocks in fs.
BackendsOf(fs) == {fs[i].backend : i \in 1..Len(fs)}

\* deactivate() of backend object b in context c, leaving blocks fs open.
deactivate(c, b, fs) ==
    /\ db_alias_stack' = [db_alias_stack EXCEPT ![c] = DeactivatedAliases(@)]
    /\ schema' = [schema EXCEPT ![c] = RestoredSchema(c, b)]
    /\ previous_schema' =
         [previous_schema EXCEPT ![c][b] =
              IF b \in BackendsOf(fs) THEN @ ELSE Unset]

----------------------------------------------------------------------------
(* The application registry the router consults.                           *)

TenantScopes == {"MASTER", "TENANT", "SHARED"}

\* utils.get_custom_apps(): the managed apps.
get_custom_apps == {"shop", "core"}

InstalledApps == {"shop", "core", "auth"}

\* tenant_scope of each AppConfig that declares one.
AppConfigScope == [core |-> "MASTER", auth |-> "SHARED"]

\* The models: app label, model name and the model's own tenant_scope
\* attribute (None: no attribute; "bogus": a value that is no TenantScope).
Models ==
    { [app_label |-> "shop", model_name |-> "Product", tenant_scope |-> None],
      [app_label |-> "shop", model_name |-> "Plan",    tenant_scope |-> "MASTER"],
      [app_label |-> "shop", model_name |-> "Note",    tenant_scope |-> "SHARED"],
      [app_label |-> "shop", model_name |-> "Cart",    tenant_scope |-> "TENANT"],
      [app_label |-> "core", model_name |-> "Setting", tenant_scope |-> None],
      [app_label |-> "core", model_name |-> "Audit",   tenant_scope |-> "bogus"],
      [app_label |-> "auth", model_name |-> "User",    tenant_scope |-> "MASTER"] }

ModelNames == {m.model_name : m \in Models} \cup {"Ghost"}

\* apps.get_model(app_label, model_name); LookupError when there is none.
ModelExists(app_label, model_name) ==
    \E m \in Models : m.app_label = app_label /\ m.model_name = model_name

get_model(app_label, model_name) ==
    CHOOSE m \in Models : m.app_label = app_label /\ m.model_name = model_name

----------------------------------------------------------------------------
(* TenantRouter                                                            *)

app_config_scope_or_master(app_label) ==
    Get(AppConfigScope, app_label, "MASTER")

\* getattr(app_config, "tenant_scope", TenantScope.TENANT)
app_config_scope(app_label) == Get(AppConfigScope, app_label, "TENANT")

\* _get_scope(model): the model's scope, then the AppConfig's, then TENANT.
get_scope(m) ==
    IF m.app_label \notin get_custom_apps THEN "TENANT"
    ELSE IF m.tenant_scope \in TenantScopes THEN m.tenant_scope
    ELSE IF m.app_label \in InstalledApps
         THEN app_config_scope(m.app_label)
         ELSE "TENANT"

\* Routing that sends SHARED reads to the active alias without the
\* fallback to the master alias.
RouteScopeNoFallback(c, scope) ==
    IF scope = "MASTER" THEN MASTER_DB_ALIAS ELSE get_db_alias(c)

\* Routing that defaults every read without an active alias to the master
\* alias.
RouteScopeDefaulting(c, scope) ==
    IF scope = "MASTER" THEN MASTER_DB_ALIAS
    ELSE Or(get_db_alias(c), MASTER_DB_ALIAS)

\* The alias a read of scope `scope` is routed to in context c.
RouteScope(c, scope) ==
    IF scope = "MASTER" THEN MASTER_DB_ALIAS
    ELSE IF scope = "SHARED"
         THEN Or(get_db_alias(c), MASTER_DB_ALIAS)
         ELSE get_db_alias(c)

db_for_read(c, m) == RouteScope(c, get_scope(m))

db_for_write(c, m) == db_for_read(c, m)

allow_relation(c, m1, m2) == db_for_read(c, m1) = db_for_read(c, m2)

\* connection.settings_dict.get("OPTIONS", {}).get("options", "")
SearchPathOf(dbs, db) == Get(GetDict(dbs[db], "OPTIONS"), "options", OptEmpty)

\* is_public_schema: the default schema name occurs in the options text,
\* or the text sets no search path.
IsPublicSchema(search_path) ==
    Contains(search_path, DEFAULT_SCHEMA_NAME)
        \/ ~Contains(search_path, S_search_path)

\* is_schema_iso: a tenant is active and it is schema-isolated.
IsSchemaIso(tenant) == tenant # None /\ isolation_type(tenant) = "SCHEMA"

\* The routing logic matrix, one rule per scope.
MasterRuleAnySchema(is_master_db, is_public_schema) == is_master_db

MasterRule(is_master_db, is_public_schema) ==
    is_master_db /\ is_public_schema

TenantRuleNoIsolationCheck(is_master_db, is_public_schema, is_schema_iso) ==
    ~is_master_db /\ is_public_schema

TenantRule(is_master_db, is_public_schema, is_schema_iso) ==
    IF is_schema_iso THEN is_master_db /\ ~is_public_schema
    ELSE ~is_master_db /\ is_public_schema

SharedRule(is_master_db, is_public_schema, is_schema_iso) ==
    LET is_master_loc == is_master_db /\ is_public_schema
        is_tenant_loc == IF is_schema_iso
                         THEN is_master_db /\ ~is_public_schema
                         ELSE ~is_master_db
    IN  is_master_loc \/ is_tenant_loc

RoutingMatrix(scope, is_master_db, is_public_schema, is_schema_iso) ==
    CASE scope = "MASTER" -> MasterRule(is_master_db, is_public_schema)
      [] scope = "TENANT" ->
             TenantRule(is_master_db, is_public_schema, is_schema_iso)
      [] scope = "SHARED" ->
             SharedRule(is_master_db, is_public_schema, is_schema_iso)
      [] OTHER -> FALSE

Bool(b) == IF b THEN "True" ELSE "False"

\* Step 1 of allow_migrate: apps outside the managed list are let through.
FastTrackNever(app_label) == FALSE

FastTrack(app_label) == app_label \notin get_custom_apps

\* allow_migrate(db, app_label, model_name) in context c: "True", "False",
\* "None" (no opinion) or "raise".
allow_migrate(c, db, app_label, model_name) ==
    IF FastTrack(app_label) THEN "True"
    ELSE IF model_name # None /\ ~ModelExists(app_label, model_name)
         THEN "None"
    ELSE IF model_name = None /\ app_label \notin InstalledApps THEN "raise"
    ELSE IF db \notin DOMAIN DATABASES THEN "raise"
    ELSE LET scope == IF model_name # None
                      THEN get_scope(get_model(app_label, model_name))
                      ELSE app_config_scope(app_label)
         IN  Bool(RoutingMatrix(scope,
                                db = MASTER_DB_ALIAS,
                                IsPublicSchema(SearchPathOf(DATABASES, db)),
                                IsSchemaIso(get_tenant(c))))

----------------------------------------------------------------------------
(* Initial state: the master database is registered, no tenant is active.  *)

\* The master entry's TEST dict: with a test database name configured, or
\* as Django's connection handler completes an entry that configures none.
TestNamed == [NAME |-> "test_master_db"]
TestUnnamed == [NAME |-> None]

MasterConfigsWith(tests) ==
    { [NAME |-> "master_db", HOST |-> "db", PORT |-> "5432", OPTIONS |-> o,
       TEST |-> tst] :
        o \in {[options |-> s] : s \in OptionStrings}, tst \in tests }

MasterConfigs == MasterConfigsWith({TestNamed})

\* No migratetenants run is in progress.
NoBatch == [stage |-> "idle"]

\* No backend call is between two steps.
NoCall == [op |-> "none"]

NoResult == [op |-> "none"]

Init ==
    /\ \E mc \in MasterConfigs : DATABASES = [a \in {MASTER_DB_ALIAS} |-> mc]
    /\ pg_databases = {"master_db"}
    /\ batch = [c \in Contexts |-> NoBatch]
    /\ pending = [c \in Contexts |-> NoCall]
    /\ tenant_stack = [c \in Contexts |-> << >>]
    /\ db_alias_stack = [c \in Contexts |-> << >>]
    /\ \E s \in Schemas :
         schema = [c \in Contexts |-> IF c \in Running THEN s ELSE "public"]
    /\ previous_schema = [c \in Contexts |-> [b \in BackendIds |-> Unset]]
    /\ frames = [c \in Contexts |-> << >>]
    /\ last = [c \in Contexts |-> NoResult]

----------------------------------------------------------------------------
(* Blocks: a with TenantContext.use_tenant(...) block, a manual            *)
(* activate() / try / finally deactivate() block, or a migrate() call.     *)

\* What the context observes when a block is entered.
Observed(c) ==
    [tenants |-> tenant_stack[c], aliases |-> db_alias_stack[c],
     schema |-> schema[c]]

Frame(kind, t, b, cls, cmd, c) ==
    [kind |-> kind, tenant |-> t, backend |-> b, class |-> cls, cmd |-> cmd,
     applied |-> {}, entry |-> Observed(c)]

\* A backend object no open block of c holds: a newly constructed backend.
NewBackend(c) ==
    CHOOSE b \in BackendIds :
        /\ b \notin BackendsOf(frames[c])
        /\ \A b2 \in BackendIds \ BackendsOf(frames[c]) : b <= b2

\* A block may be entered while the context is below the nesting bound and
\* is not about to leave a finished migrate command.
CanEnter(c) ==
    /\ Len(frames[c]) < MaxDepth
    /\ frames[c] # << >> => Top(frames[c]).cmd \notin {"ok", "exc"}

\* TenantContext.use_tenant(tenant).__enter__: push the tenant, activate
\* the backend get_tenant_backend gives.
use_tenant_enter(dbs, c, t, kind, cmd, query_ok) ==
    LET b == NewBackend(c)
        cls == get_tenant_backend(t)
    IN  /\ tenant_stack' = [tenant_stack EXCEPT ![c] = push_tenant(@, t)]
        /\ activate(dbs, c, b, cls, t, query_ok)
        /\ frames' = [frames EXCEPT ![c] = Append(@, Frame(kind, t, b, cls, cmd, c))]

\* TenantContext.use_tenant(tenant).__exit__: deactivate, pop the tenant.
use_tenant_exit(c) ==
    LET f == Top(frames[c])
    IN  /\ deactivate(c, f.backend, Pop(frames[c]))
        /\ tenant_stack' = [tenant_stack EXCEPT ![c] = pop_tenant(@)]
        /\ frames' = [frames EXCEPT ![c] = Pop(@)]
        /\ UNCHANGED DATABASES

UseTenantEnter(c, t, query_ok) ==
    /\ CanEnter(c)
    /\ use_tenant_enter(DATABASES, c, t, "use_tenant", "none", query_ok)
    /\ UNCHANGED <<last, outside>>

UseTenantExit(c) ==
    /\ frames[c] # << >>
    /\ Top(frames[c]).kind = "use_tenant"
    /\ use_tenant_exit(c)
    /\ last' = [last EXCEPT ![c] =
          [op |-> "use_tenant", tenant |-> Top(frames[c]).tenant]]
    /\ UNCHANGED outside

\* backend.activate() called directly on a DatabaseTenantBackend, either a
\* new object or the object an open manual block of c already activated.
Activate(c, t, b, query_ok) ==
    /\ CanEnter(c)
    /\ get_tenant_backend(t) = "DatabaseTenantBackend"
    /\ \/ b = NewBackend(c)
       \/ \E i \in 1..Len(frames[c]) :
            /\ frames[c][i].kind = "manual"
            /\ frames[c][i].backend = b
            /\ frames[c][i].tenant = t
    /\ activate(DATABASES, c, b, "DatabaseTenantBackend", t, query_ok)
    /\ frames' = [frames EXCEPT ![c] =
          Append(@, Frame("manual", t, b, "DatabaseTenantBackend", "none", c))]
    /\ UNCHANGED <<tenant_stack, last, outside>>

\* The matching backend.deactivate() of the innermost manual block.
Deactivate(c) ==
    /\ frames[c] # << >>
    /\ Top(frames[c]).kind = "manual"
    /\ deactivate(c, Top(frames[c]).backend, Pop(frames[c]))
    /\ frames' = [frames EXCEPT ![c] = Pop(@)]
    /\ last' = [last EXCEPT ![c] =
          [op |-> "deactivate", tenant |-> Top(frames[c]).tenant]]
    /\ UNCHANGED <<DATABASES, tenant_stack, outside>>

----------------------------------------------------------------------------
(* DatabaseTenantBackend.migrate                                           *)

\* migrate() up to the call of the migrate command: resolve the alias,
\* enter the tenant context.
migrate_enter(c, t, query_ok) ==
    use_tenant_enter(get_alias_and_config(DATABASES, t).registry,
                     c, t, "migrate", "running", query_ok)

MigrateEnter(c, t, query_ok) ==
    /\ CanEnter(c)
    /\ get_tenant_backend(t) = "DatabaseTenantBackend"
    /\ migrate_enter(c, t, query_ok)
    /\ UNCHANGED <<last, outside>>

\* The models the migrate command materialises at db: those the router
\* allows there.
Migrated(c, db) ==
    {m \in Models : allow_migrate(c, db, m.app_label, m.model_name) = "True"}

\* call_command("migrate", database=db_alias) finishes: it returns, or it
\* raises (a failure of its own, or a router decision that raises).
CallCommand(c, fails) ==
    /\ frames[c] # << >>
    /\ Top(frames[c]).kind = "migrate"
    /\ Top(frames[c]).cmd = "running"
    /\ LET db == get_alias_and_config(DATABASES, Top(frames[c]).tenant).alias
           raises == fails \/ \E m \in Models :
                        allow_migrate(c, db, m.app_label, m.model_name) = "raise"
       IN  frames' = [frames EXCEPT
                         ![c][Len(frames[c])].cmd =
                             IF raises THEN "exc" ELSE "ok",
                         ![c][Len(frames[c])].applied =
                             IF raises THEN {} ELSE Migrated(c, db)]
    /\ UNCHANGED <<DATABASES, tenant_stack, db_alias_stack, schema,
                   previous_schema, last, outside>>

\* A signal as its receivers get it: its name, the sending backend's
\* tenant, and what a receiver can observe while it is sent (the aliases
\* registered, the databases on the server, the context's tenant stack).
Signal(name, t, dbs, pg, tenants) ==
    [name |-> name, tenant |-> t, aliases |-> DOMAIN dbs, databases |-> pg,
     tenants |-> tenants]

\* migrate() that calls super().migrate() whatever the command did.
MigrateResultSignalsAlways(c, f) ==
    [op |-> "migrate", tenant |-> f.tenant,
     result |-> IF f.cmd = "exc" THEN "raised" ELSE "returned",
     applied |-> f.applied,
     signals |-> <<Signal("tenant_migrated", f.tenant, DATABASES',
                          pg_databases, tenant_stack'[c])>>]

\* How migrate() ends once the command has finished and the with block is
\* left: the exception propagates, or super().migrate() sends
\* tenant_migrated.
MigrateResult(c, f) ==
    IF f.cmd = "exc"
    THEN [op |-> "migrate", tenant |-> f.tenant, result |-> "raised",
          applied |-> f.applied, signals |-> << >>]
    ELSE [op |-> "migrate", tenant |-> f.tenant, result |-> "returned",
          applied |-> f.applied,
          signals |-> <<Signal("tenant_migrated", f.tenant, DATABASES',
                               pg_databases, tenant_stack'[c])>>]

\* migrate() without the scoped block: a raising command leaves the
\* activation behind.
MigrateExitNoRelease(c) ==
    /\ frames[c] # << >>
    /\ Top(frames[c]).kind = "migrate"
    /\ Top(frames[c]).cmd \in {"ok", "exc"}
    /\ IF Top(frames[c]).cmd = "exc"
       THEN /\ frames' = [frames EXCEPT ![c] = Pop(@)]
            /\ UNCHANGED <<DATABASES, tenant_stack, db_alias_stack, schema,
                           previous_schema>>
       ELSE use_tenant_exit(c)
    /\ last' = [last EXCEPT ![c] = MigrateResult(c, Top(frames[c]))]
    /\ UNCHANGED outside

MigrateExit(c) ==
    /\ frames[c] # << >>
    /\ Top(frames[c]).kind = "migrate"
    /\ Top(frames[c]).cmd \in {"ok", "exc"}
    /\ use_tenant_exit(c)
    /\ last' = [last EXCEPT ![c] = MigrateResult(c, Top(frames[c]))]
    /\ UNCHANGED outside

----------------------------------------------------------------------------
(* Registry and ORM operations.                                            *)

\* backend.bind() of a DatabaseTenantBackend for tenant t.
Bind(t) ==
    /\ DATABASES' = bind(DATABASES, t)
    /\ DATABASES' # DATABASES
    /\ UNCHANGED <<tenant_stack, db_alias_stack, schema, previous_schema,
                   frames, last, outside>>

\* ORM reads and writes of every model in context c: the router picks the
\* alias of each.
Query(c) ==
    /\ last' = [last EXCEPT ![c] =
          [op |-> "query",
           read |-> [m \in Models |-> db_for_read(c, m)],
           write |-> [m \in Models |-> db_for_write(c, m)]]]
    /\ last' # last
    /\ UNCHANGED <<DATABASES, tenant_stack, db_alias_stack, schema,
                   previous_schema, frames, outside>>

Next ==
    \/ \E c \in Running, t \in Tenants, q \in BOOLEAN : UseTenantEnter(c, t, q)
    \/ \E c \in Running : UseTenantExit(c)
    \/ \E c \in Running, t \in Tenants, b \in BackendIds, q \in BOOLEAN :
          Activate(c, t, b, q)
    \/ \E c \in Running : Deactivate(c)
    \/ \E c \in Running, t \in Tenants, q \in BOOLEAN : MigrateEnter(c, t, q)
    \/ \E c \in Running, fails \in BOOLEAN : CallCommand(c, fails)
    \/ \E c \in Running : MigrateExit(c)
    \/ \E t \in Tenants : Bind(t)
    \/ \E c \in Running : Query(c)

Spec == Init /\ [][Next]_vars

----------------------------------------------------------------------------
(* Properties.                                                             *)

\* The innermost open block of c is closed by this step.
Leaves(c) == frames[c] # << >> /\ frames'[c] = Pop(frames[c])

\* The tenant and alias on top of the stacks observed at a block's entry.
TenantAt(e) == IF e.tenants = << >> THEN None ELSE Top(e.tenants)
AliasAt(e) == IF e.aliases = << >> THEN None ELSE Top(e.aliases)

\* C1: when migrate() ends, with the tenant_migrated signal or with the
\* exception of the migrate command, the context's tenant stack and alias
\* stack are exactly what they were when migrate() was called, and a
\* raising command makes migrate() raise.
MigrateKeepsStackBalanced ==
    [][\A c \in Contexts :
         (Leaves(c) /\ Top(frames[c]).kind = "migrate") =>
            /\ tenant_stack'[c] = Top(frames[c]).entry.tenants
            /\ db_alias_stack'[c] = Top(frames[c]).entry.aliases
            /\ last'[c].op = "migrate"
            /\ (Top(frames[c]).cmd = "exc") = (last'[c].result = "raised")
      ]_vars

\* Witness of C1: a migrate() called inside another tenant's block has
\* raised, and that tenant is the active one again.
MigrateRaisedInsideBlock ==
    \E c \in Contexts :
        /\ last[c].op = "migrate"
        /\ last[c].result = "raised"
        /\ Len(frames[c]) = 1
        /\ get_tenant(c) = frames[c][1].tenant
        /\ get_tenant(c) # last[c].tenant

\* C2: every deactivation gives back the active tenant and the active
\* alias that were observed before its activation (None included), so n
\* activations followed by n deactivations end where they started.
StackBalance ==
    [][\A c \in Contexts :
         Leaves(c) =>
            /\ get_tenant(c)' = TenantAt(Top(frames[c]).entry)
            /\ get_db_alias(c)' = AliasAt(Top(frames[c]).entry)
            /\ Len(db_alias_stack'[c]) = Len(Top(frames[c]).entry.aliases)
      ]_vars

\* Witness of C2: the last of several deactivations has happened and no
\* tenant and no alias is active, as before the first activation.
AllDeactivated ==
    \E c \in Contexts :
        /\ last[c].op \in {"use_tenant", "deactivate"}
        /\ frames[c] = << >>
        /\ get_tenant(c) = None
        /\ get_db_alias(c) = None

\* C3: while a block is open, a TENANT-scoped read is routed to the alias
\* of the tenant of the innermost open block: B's alias from B's
\* activation to B's deactivation, A's alias again afterwards.
LifoRouting ==
    \A c \in Contexts :
        frames[c] # << >> =>
            \A m \in Models :
                get_scope(m) = "TENANT" =>
                    db_for_read(c, m) =
                        get_alias_and_config(DATABASES, Top(frames[c]).tenant).alias

\* Witness of C3: tenant bare was deactivated inside acme's block and
\* TENANT-scoped reads go to acme's alias again.
RoutingBackToOuter ==
    \E c \in Contexts :
        /\ last[c].op = "use_tenant"
        /\ last[c].tenant = "bare"
        /\ Len(frames[c]) = 1
        /\ frames[c][1].tenant = "acme"
        /\ \A m \in Models :
              get_scope(m) = "TENANT" => db_for_read(c, m) = "acme_db"

\* C4: activate() of a DatabaseTenantBackend leaves the connection on
\* schema public, and the matching deactivate() puts the connection back
\* on the schema it was on just before that activate().
SchemaRestored ==
    [][\A c \in Contexts :
         /\ (Len(frames'[c]) = Len(frames[c]) + 1
               /\ Top(frames'[c]).class = "DatabaseTenantBackend")
               => schema'[c] = "public"
         /\ (Leaves(c) /\ Top(frames[c]).class = "DatabaseTenantBackend")
               => schema'[c] = Top(frames[c]).entry.schema
      ]_vars


\* A model by its name.
ModelNamed(name) == CHOOSE m \in Models : m.model_name = name

\* The models of managed apps whose scope resolves to `scope`.
Managed(scope) ==
    {m \in Models : m.app_label \in get_custom_apps /\ get_scope(m) = scope}

\* The alias pushed by the innermost open activation of c.
ActiveAlias(c) == get_alias_and_config(DATABASES, Top(frames[c]).tenant).alias

\* C5: reads and writes of a model go to the same alias: the master alias
\* for a MASTER-scoped model whatever is active; the alias of the active
\* tenant for a TENANT-scoped model while an activation is open; for a
\* SHARED-scoped model the alias of the active tenant while an activation
\* is open and the master alias otherwise.
RoutingCorrect ==
    \A c \in Contexts, m \in Models :
        /\ db_for_write(c, m) = db_for_read(c, m)
        /\ get_scope(m) = "MASTER" => db_for_read(c, m) = MASTER_DB_ALIAS
        /\ (get_scope(m) = "TENANT" /\ frames[c] # << >>)
              => db_for_read(c, m) = ActiveAlias(c)
        /\ get_scope(m) = "SHARED"
              => db_for_read(c, m) =
                    IF frames[c] # << >> THEN ActiveAlias(c)
                    ELSE MASTER_DB_ALIAS

\* Witness of C5: with tenant acme active inside another block, the ORM
\* routed the MASTER model to the master alias and the TENANT and SHARED
\* models to acme's alias, for reads and for writes.
RoutedUnderAcme ==
    \E c \in Contexts :
        /\ Len(frames[c]) = 2
        /\ Top(frames[c]).tenant = "acme"
        /\ last[c].op = "query"
        /\ last[c].read[ModelNamed("Plan")] = MASTER_DB_ALIAS
        /\ last[c].read[ModelNamed("Cart")] = "acme_db"
        /\ last[c].write[ModelNamed("Note")] = "acme_db"

\* C6: with no activation open, a TENANT-scoped read is routed to None,
\* not to the master alias, and a SHARED-scoped read to the master alias.
NoTenantSentinel ==
    \A c \in Contexts :
        frames[c] = << >> =>
            \A m \in Models :
                /\ get_scope(m) = "TENANT"
                      => (db_for_read(c, m) = None
                            /\ db_for_read(c, m) # MASTER_DB_ALIAS)
                /\ get_scope(m) = "SHARED"
                      => db_for_read(c, m) = MASTER_DB_ALIAS

\* Witness of C6: after the last deactivation the ORM routed a TENANT
\* model to None and a SHARED model to the master alias.
RoutedWithoutTenant ==
    \E c \in Contexts :
        /\ frames[c] = << >>
        /\ "acme_db" \in DOMAIN DATABASES
        /\ last[c].op = "query"
        /\ last[c].read[ModelNamed("Product")] = None
        /\ last[c].read[ModelNamed("Note")] = MASTER_DB_ALIAS

\* The schema state of a registered alias: the default schema is active
\* when the options text is empty or selects public.
DefaultSchemaActive(db) == SearchPathOf(DATABASES, db) \in {OptEmpty, OptPublic}

\* C7: for a MASTER-scoped model of a managed app (and for a managed app
\* whose AppConfig is MASTER-scoped, asked without a model name),
\* allow_migrate at a registered alias is True exactly at the master alias
\* with the default schema active and False in the three other cells,
\* whatever tenant is active.
MasterMatrix ==
    \A c \in Contexts, db \in DOMAIN DATABASES :
        LET cell == Bool(db = MASTER_DB_ALIAS /\ DefaultSchemaActive(db))
        IN  /\ \A m \in Managed("MASTER") :
                  allow_migrate(c, db, m.app_label, m.model_name) = cell
            /\ allow_migrate(c, db, "core", None) = cell

\* Witness of C7: with a schema-isolated tenant active, the master alias
\* on a tenant schema and acme's alias registered, a MASTER model is
\* refused at both aliases.
MasterRefusedOffDefault ==
    \E c \in Contexts :
        /\ get_tenant(c) = "sch"
        /\ "acme_db" \in DOMAIN DATABASES
        /\ ~DefaultSchemaActive(MASTER_DB_ALIAS)
        /\ allow_migrate(c, MASTER_DB_ALIAS, "shop", "Plan") = "False"
        /\ allow_migrate(c, "acme_db", "shop", "Plan") = "False"

\* The tenant the router sees as active is schema-isolated.
SchemaIsolatedActive(c) ==
    get_tenant(c) # None /\ isolation_type(get_tenant(c)) = "SCHEMA"

\* C8: for a TENANT-scoped model of a managed app, allow_migrate at a
\* registered alias is True at the master alias only when the active
\* tenant is schema-isolated and a non-default schema is active there;
\* with a database- or table-isolated active tenant or none it is True
\* only at a non-master alias with the default schema active; every other
\* cell is False.
TenantMatrix ==
    \A c \in Contexts, db \in DOMAIN DATABASES, m \in Managed("TENANT") :
        allow_migrate(c, db, m.app_label, m.model_name) =
            Bool(IF SchemaIsolatedActive(c)
                 THEN db = MASTER_DB_ALIAS /\ ~DefaultSchemaActive(db)
                 ELSE db # MASTER_DB_ALIAS /\ DefaultSchemaActive(db))

\* Witness of C8: with a schema-isolated tenant active and the master
\* alias on a tenant schema, a TENANT model is allowed at the master alias.
TenantAllowedAtMasterSchema ==
    \E c \in Contexts :
        /\ get_tenant(c) = "sch"
        /\ ~DefaultSchemaActive(MASTER_DB_ALIAS)
        /\ allow_migrate(c, MASTER_DB_ALIAS, "shop", "Cart") = "True"

\* C9: for a SHARED-scoped model of a managed app, allow_migrate equals
\* the OR of what it answers, at the same alias in the same state, for a
\* MASTER-scoped model and for a TENANT-scoped model.
SharedIsMasterOrTenant ==
    \A c \in Contexts, db \in DOMAIN DATABASES, m \in Managed("SHARED") :
        allow_migrate(c, db, m.app_label, m.model_name) =
            Bool(allow_migrate(c, db, "shop", "Plan") = "True"
                   \/ allow_migrate(c, db, "shop", "Cart") = "True")

\* Apps outside the managed list, installed or not.
UnmanagedApps == (InstalledApps \ get_custom_apps) \cup {"contenttypes"}

\* C10: for an app outside the managed list allow_migrate is True for
\* every alias (registered or not), every model name (given or not, known
\* or not) and every context state.
FastPathBypass ==
    \A c \in Contexts, db \in DOMAIN DATABASES \cup {"acme_db", "nowhere"},
       app \in UnmanagedApps, name \in ModelNames \cup {None} :
        allow_migrate(c, db, app, name) = "True"

\* Witness of C10: a migrate command run for tenant bare, at the master
\* alias on a tenant schema, materialised the model of the unmanaged app
\* while acme's alias was not registered.
UnmanagedMigratedAnywhere ==
    \E c \in Contexts :
        /\ last[c].op = "migrate"
        /\ last[c].tenant = "bare"
        /\ ModelNamed("User") \in last[c].applied
        /\ ~DefaultSchemaActive(MASTER_DB_ALIAS)
        /\ "acme_db" \notin DOMAIN DATABASES
        /\ allow_migrate(c, "acme_db", "auth", "User") = "True"

----------------------------------------------------------------------------
(* Relations.                                                              *)

\* The database an alias stands for.
DestinationOf(alias) ==
    IF alias \in DOMAIN DATABASES THEN DATABASES[alias].NAME ELSE alias

\* C11: allow_relation(obj1, obj2) allows a relation only between objects
\* whose data live in the same physical destination: two objects the
\* context has loaded (each lives in the database its read was routed to)
\* may be related only when they were loaded from the same database,
\* whatever their scopes and whatever tenant is active now.
RelationWithinOneDestination ==
    \A c \in Contexts, m1 \in Models, m2 \in Models :
        (/\ last[c].op = "query"
         /\ last[c].read[m1] # None
         /\ last[c].read[m2] # None
         /\ allow_relation(c, m1, m2))
            => DestinationOf(last[c].read[m1]) = DestinationOf(last[c].read[m2])

----------------------------------------------------------------------------
(* DatabaseTenantBackend.delete and the signals of the base backend.       *)

\* _drop_database: DROP DATABASE IF EXISTS "<name>"
drop_database(pg, name) == pg \ {name}

\* delete() that leaves settings.DATABASES alone.
UnregisterNothing(dbs, alias) == dbs

\* del settings.DATABASES[alias]
Unregister(dbs, alias) == [a \in DOMAIN dbs \ {alias} |-> dbs[a]]

\* How delete() ends: with an exception, or after super().delete() has
\* sent tenant_deleted. `existed` tells whether the database named by the
\* resolved configuration was on the server when delete() was called,
\* `rejected` whether the server refuses connections.
DeleteResult(c, t, drop_db, rejected, raised, dbs, pg, existed) ==
    [op |-> "delete", tenant |-> t, drop_db |-> drop_db,
     rejected |-> rejected, existed |-> existed,
     result |-> IF raised THEN "raised" ELSE "returned",
     signals |-> IF raised THEN << >>
                 ELSE <<Signal("tenant_deleted", t, dbs, pg, tenant_stack[c])>>]

\* _drop_database that issues DROP DATABASE without IF EXISTS.
DropFailsWhenMissing(pg, name, rejected) == rejected \/ name \notin pg

\* _drop_database raises only when the server refuses the connection.
DropFails(pg, name, rejected) == rejected

\* delete(drop_db) called on registry dbs and server pg: whether it raises,
\* and the registry and the server it leaves.
delete(dbs, pg, t, drop_db, rejected) ==
    LET r == get_alias_and_config(dbs, t)
        raised == drop_db /\ DropFails(pg, r.config.NAME, rejected)
    IN  [raised |-> raised,
         registry |-> IF ~raised /\ r.alias \in DOMAIN r.registry
                      THEN Unregister(r.registry, r.alias) ELSE r.registry,
         databases |-> IF ~raised /\ drop_db
                       THEN drop_database(pg, r.config.NAME) ELSE pg]

----------------------------------------------------------------------------
(* Two execution contexts: threads that share settings.DATABASES and are   *)
(* switched between two steps of a backend call.                           *)

\* Bound: the deepest nesting of activations of a context when two run.
ConcDepth == 1

Idle(c) == pending[c] = NoCall

\* activate() up to its test `db_alias not in settings.DATABASES`, reached
\* from a with TenantContext.use_tenant(...) or called directly.
ActivateCheck(c, t, kind) ==
    /\ Idle(c)
    /\ Len(frames[c]) < ConcDepth
    /\ kind = "manual" => get_tenant_backend(t) = "DatabaseTenantBackend"
    /\ pending' = [pending EXCEPT ![c] =
          [op |-> "activate", tenant |-> t, kind |-> kind,
           found |-> ActivatedAlias(t) \in DOMAIN DATABASES]]
    /\ UNCHANGED <<DATABASES, pg_databases, batch, tenant_stack,
                   db_alias_stack, schema, previous_schema, frames, last>>

\* The rest of that activate(): bind() when the test found the alias
\* missing, then the push and the schema switch.
ActivateFinish(c) ==
    /\ pending[c].op = "activate"
    /\ LET t == pending[c].tenant
           kind == pending[c].kind
           b == NewBackend(c)
           cls == IF kind = "manual" THEN "DatabaseTenantBackend"
                  ELSE get_tenant_backend(t)
       IN  /\ DATABASES' = IF pending[c].found THEN DATABASES
                           ELSE bind(DATABASES, t)
           /\ activate_context(c, b, cls, t, TRUE)
           /\ tenant_stack' =
                 IF kind = "manual" THEN tenant_stack
                 ELSE [tenant_stack EXCEPT ![c] = push_tenant(@, t)]
           /\ frames' = [frames EXCEPT ![c] =
                 Append(@, Frame(kind, t, b, cls, "none", c))]
    /\ pending' = [pending EXCEPT ![c] = NoCall]
    /\ UNCHANGED <<pg_databases, batch, last>>

\* delete(drop_db=False) up to its test `db_alias in settings.DATABASES`.
DeleteCheck(c, t) ==
    /\ Idle(c)
    /\ get_tenant_backend(t) = "DatabaseTenantBackend"
    /\ LET r == get_alias_and_config(DATABASES, t)
       IN  /\ DATABASES' = r.registry
           /\ pending' = [pending EXCEPT ![c] =
                 [op |-> "delete", tenant |-> t, alias |-> r.alias,
                  found |-> r.alias \in DOMAIN r.registry]]
    /\ UNCHANGED <<pg_databases, batch, tenant_stack, db_alias_stack, schema,
                   previous_schema, frames, last>>

\* The rest of that delete(): `del settings.DATABASES[db_alias]` when the
\* test found the alias (KeyError when it is there no more), then the
\* tenant_deleted signal.
DeleteRemove(c) ==
    /\ pending[c].op = "delete"
    /\ LET t == pending[c].tenant
           alias == pending[c].alias
           raised == pending[c].found /\ alias \notin DOMAIN DATABASES
       IN  /\ DATABASES' = IF pending[c].found /\ ~raised
                           THEN Unregister(DATABASES, alias) ELSE DATABASES
           /\ last' = [last EXCEPT ![c] =
                 DeleteResult(c, t, FALSE, FALSE, raised, DATABASES',
                              pg_databases,
                              ResolvedConfig(DATABASES, t).NAME \in pg_databases)]
    /\ pending' = [pending EXCEPT ![c] = NoCall]
    /\ UNCHANGED <<pg_databases, batch, tenant_stack, db_alias_stack, schema,
                   previous_schema, frames>>

\* Two threads start on the public schema with no tenant active.
ConcurrentInit ==
    /\ \E mc \in MasterConfigsWith({TestNamed}) :
          /\ mc.OPTIONS.options = OptPublic
          /\ DATABASES = [a \in {MASTER_DB_ALIAS} |-> mc]
    /\ pg_databases = {"master_db"}
    /\ batch = [c \in Contexts |-> NoBatch]
    /\ pending = [c \in Contexts |-> NoCall]
    /\ tenant_stack = [c \in Contexts |-> << >>]
    /\ db_alias_stack = [c \in Contexts |-> << >>]
    /\ schema = [c \in Contexts |-> "public"]
    /\ previous_schema = [c \in Contexts |-> [b \in BackendIds |-> Unset]]
    /\ frames = [c \in Contexts |-> << >>]
    /\ last = [c \in Contexts |-> NoResult]

\* Both contexts activate and deactivate tenants, each call in one step.
ContextNext ==
    \/ \E c \in Contexts, t \in Tenants :
          Len(frames[c]) < ConcDepth /\ UseTenantEnter(c, t, TRUE)
    \/ \E c \in Contexts : UseTenantExit(c)
    \/ \E c \in Contexts, t \in Tenants, b \in BackendIds :
          Len(frames[c]) < ConcDepth /\ Activate(c, t, b, TRUE)
    \/ \E c \in Contexts : Deactivate(c)

ContextSpec == ConcurrentInit /\ [][ContextNext]_vars

\* The tenant whose alias both contexts bind, activate and delete.
Contended == {"acme"}

\* Both contexts call bind(), activate() and delete() for one tenant; a
\* context may be switched out between the test and the act of a call.
RegistryNext ==
    \/ \E c \in Contexts, t \in Contended, kind \in {"use_tenant", "manual"} :
          ActivateCheck(c, t, kind)
    \/ \E c \in Contexts : ActivateFinish(c)
    \/ \E c \in Contexts : Idle(c) /\ UseTenantExit(c)
    \/ \E c \in Contexts : Idle(c) /\ Deactivate(c)
    \/ \E t \in Contended : Bind(t)
    \/ \E c \in Contexts, t \in Contended : DeleteCheck(c, t)
    \/ \E c \in Contexts : DeleteRemove(c)

RegistrySpec == ConcurrentInit /\ [][RegistryNext]_vars

----------------------------------------------------------------------------
(* The life of a tenant database: create, bind, use, migrate, delete.      *)

\* Bound: the deepest nesting of activations while tenants are created
\* and deleted.
LifeDepth == 1

\* _create_database raises when the server refuses the connection, when
\* the name is no string, or when CREATE DATABASE finds the database.
CreateFails(pg, name, rejected) == rejected \/ name = None \/ name \in pg

\* _create_database that returns without having created anything.
create_database_skipped(pg, name) == pg

\* CREATE DATABASE "<name>"
create_database(pg, name) == pg \cup {name}

\* The context is not about to leave a finished migrate command.
Quiet(c) == frames[c] # << >> => Top(frames[c]).cmd \notin {"ok", "exc"}

\* How create() stands once the database step and super().create()'s
\* bind() and signal are over; `rejected` tells whether the server refuses
\* connections.
CreateResult(t, run_migrations, rejected, result, signals) ==
    [op |-> "create", tenant |-> t, run_migrations |-> run_migrations,
     rejected |-> rejected, result |-> result, signals |-> signals]

\* create(run_migrations): create the database, then super().create():
\* bind(), the tenant_created signal, and migrate() when asked (migrate()
\* goes on with CallCommand and MigrateExit).
Create(c, t, run_migrations, rejected, query_ok) ==
    /\ Quiet(c)
    /\ run_migrations => Len(frames[c]) < LifeDepth
    /\ get_tenant_backend(t) = "DatabaseTenantBackend"
    /\ LET r == get_alias_and_config(DATABASES, t)
           bound == bind(r.registry, t)
           created == create_database(pg_databases, r.config.NAME)
       IN  IF CreateFails(pg_databases, r.config.NAME, rejected)
           THEN /\ DATABASES' = r.registry
                /\ last' = [last EXCEPT ![c] =
                      CreateResult(t, run_migrations, rejected, "raised", << >>)]
                /\ UNCHANGED <<pg_databases, tenant_stack, db_alias_stack,
                               schema, previous_schema, frames>>
           ELSE /\ pg_databases' = created
                /\ last' = [last EXCEPT ![c] =
                      CreateResult(t, run_migrations, rejected,
                                   IF run_migrations THEN "migrating"
                                   ELSE "returned",
                                   <<Signal("tenant_created", t, bound, created,
                                            tenant_stack[c])>>)]
                /\ IF run_migrations
                   THEN use_tenant_enter(
                            get_alias_and_config(bound, t).registry,
                            c, t, "migrate", "running", query_ok)
                   ELSE /\ DATABASES' = bound
                        /\ UNCHANGED <<tenant_stack, db_alias_stack, schema,
                                       previous_schema, frames>>
    /\ UNCHANGED <<batch, pending>>

\* delete(drop_db) from its first statement to its last.
Delete(c, t, drop_db, rejected) ==
    /\ Quiet(c)
    /\ get_tenant_backend(t) = "DatabaseTenantBackend"
    /\ LET d == delete(DATABASES, pg_databases, t, drop_db, rejected)
       IN  /\ DATABASES' = d.registry
           /\ pg_databases' = d.databases
           /\ last' = [last EXCEPT ![c] =
                 DeleteResult(c, t, drop_db, rejected, d.raised, d.registry,
                              d.databases,
                              ResolvedConfig(DATABASES, t).NAME \in pg_databases)]
    /\ UNCHANGED <<batch, pending, tenant_stack, db_alias_stack, schema,
                   previous_schema, frames>>

\* The tenants whose databases are created and deleted.
Provisioned == {"acme", "bare"}

LifecycleInit ==
    /\ \E mc \in MasterConfigsWith({TestNamed, TestUnnamed}) :
          /\ mc.OPTIONS.options = OptPublic
          /\ DATABASES = [a \in {MASTER_DB_ALIAS} |-> mc]
    /\ pg_databases = {"master_db"}
    /\ batch = [c \in Contexts |-> NoBatch]
    /\ pending = [c \in Contexts |-> NoCall]
    /\ tenant_stack = [c \in Contexts |-> << >>]
    /\ db_alias_stack = [c \in Contexts |-> << >>]
    /\ schema = [c \in Contexts |-> "public"]
    /\ previous_schema = [c \in Contexts |-> [b \in BackendIds |-> Unset]]
    /\ frames = [c \in Contexts |-> << >>]
    /\ last = [c \in Contexts |-> NoResult]

LifecycleNext ==
    \/ \E c \in Running, t \in Provisioned, m \in BOOLEAN, r \in BOOLEAN :
          Create(c, t, m, r, TRUE)
    \/ \E c \in Running, t \in Provisioned, d \in BOOLEAN, r \in BOOLEAN :
          Delete(c, t, d, r)
    \/ \E t \in Provisioned : Bind(t)
    \/ \E c \in Running, t \in Provisioned :
          Len(frames[c]) < LifeDepth /\ UseTenantEnter(c, t, TRUE)
    \/ \E c \in Running : UseTenantExit(c)
    \/ \E c \in Running, t \in Provisioned :
          Len(frames[c]) < LifeDepth /\ MigrateEnter(c, t, TRUE)
    \/ \E c \in Running, fails \in BOOLEAN : CallCommand(c, fails)
    \/ \E c \in Running : MigrateExit(c)
    \/ \E c \in Running : Query(c)

LifecycleSpec == LifecycleInit /\ [][LifecycleNext]_vars

\* C12: an activate or a deactivate performed by one execution context
\* changes neither the active tenant, nor the active alias, nor the depth
\* of the stacks that any other context observes, whatever the
\* interleaving of the two contexts.
ContextIsolation ==
    [][\A c1 \in Contexts, c2 \in Contexts :
         (c1 # c2 /\ frames'[c1] # frames[c1]) =>
            /\ get_tenant(c2)' = get_tenant(c2)
            /\ get_db_alias(c2)' = get_db_alias(c2)
            /\ Len(tenant_stack'[c2]) = Len(tenant_stack[c2])
            /\ Len(db_alias_stack'[c2]) = Len(db_alias_stack[c2])
      ]_vars

\* Witness of C12: one context has left its tenant and observes none,
\* while the other one still observes tenant acme and acme's alias.
OneLeftOtherStillActive ==
    \E c1 \in Contexts, c2 \in Contexts :
        /\ c1 # c2
        /\ get_tenant(c1) = "acme"
        /\ get_db_alias(c1) = "acme_db"
        /\ last[c2].op = "use_tenant"
        /\ get_tenant(c2) = None
        /\ get_db_alias(c2) = None

\* C13: no bind(), activate() or delete() that the two contexts issue on
\* the shared registry fails because of how their steps interleave: every
\* delete() that has ended has returned.
RegistryCallsNeverFail ==
    \A c \in Contexts :
        last[c].op = "delete" => last[c].result = "returned"

----------------------------------------------------------------------------
(* Properties of the life of a tenant database.                            *)

\* A call of `op` by context c ends (or, for create with migrations,
\* reaches its migrate step) in this step.
Ends(c, op) == last'[c] # last[c] /\ last'[c].op = op

\* C14: create() creates the physical database, registers the alias,
\* sends tenant_created and then migrates only if run_migrations is true:
\* receivers of tenant_created find the database and the alias there and
\* the tenant not yet activated. When the creation fails (the database is
\* there already, or the server rejects the credentials) the error
\* propagates, the registry is left unchanged and no signal is sent.
CreateInOrderOrNothing ==
    [][\A c \in Contexts :
         Ends(c, "create") =>
            LET res == last'[c]
                r == get_alias_and_config(DATABASES, res.tenant)
                name == r.config.NAME
            IN  /\ (res.rejected \/ name \in pg_databases)
                       => res.result = "raised"
                /\ res.result = "raised" =>
                       /\ DATABASES' = DATABASES
                       /\ pg_databases' = pg_databases
                       /\ res.signals = << >>
                       /\ frames'[c] = frames[c]
                /\ res.result # "raised" =>
                       /\ name \in pg_databases'
                       /\ r.alias \in DOMAIN DATABASES'
                       /\ Len(res.signals) = 1
                       /\ res.signals[1].name = "tenant_created"
                       /\ name \in res.signals[1].databases
                       /\ r.alias \in res.signals[1].aliases
                       /\ res.signals[1].tenants = tenant_stack[c]
                       /\ IF res.run_migrations
                          THEN /\ frames'[c] # << >>
                               /\ Pop(frames'[c]) = frames[c]
                               /\ Top(frames'[c]).kind = "migrate"
                               /\ Top(frames'[c]).cmd = "running"
                          ELSE frames'[c] = frames[c]
      ]_vars

\* C15: bind() leaves exactly one registry entry for the tenant's alias,
\* holding the configuration resolved by this call, changes no entry of
\* any other alias, and a second bind() right after it changes nothing.
BindIdempotent ==
    [][\A t \in Provisioned :
         (/\ DATABASES' = bind(DATABASES, t)
          /\ DATABASES' # DATABASES
          /\ UNCHANGED <<pg_databases, frames, last>>) =>
            LET alias == AliasOf(db_config(t))
            IN  /\ DOMAIN DATABASES' = DOMAIN DATABASES \cup {alias}
                /\ DATABASES'[alias] = ResolvedConfig(DATABASES, t)
                /\ \A a \in DOMAIN DATABASES \ {alias} :
                       DATABASES'[a] = DATABASES[a]
                /\ bind(DATABASES', t) = DATABASES'
      ]_vars

\* C16: after a delete(drop_db) that returned, the tenant's alias is not
\* in the registry, one tenant_deleted signal has been sent, and the
\* physical database is gone if drop_db was true and untouched if it was
\* false; so delete(False) removes the registration and a later
\* delete(True) the database.
DeleteUnregistersAndDropsOnDemand ==
    [][\A c \in Contexts :
         (Ends(c, "delete") /\ last'[c].result = "returned") =>
            LET res == last'[c]
                r == get_alias_and_config(DATABASES, res.tenant)
            IN  /\ r.alias \notin DOMAIN DATABASES'
                /\ Len(res.signals) = 1
                /\ res.signals[1].name = "tenant_deleted"
                /\ res.signals[1].tenant = res.tenant
                /\ pg_databases' =
                      IF res.drop_db THEN pg_databases \ {r.config.NAME}
                      ELSE pg_databases
      ]_vars

\* Witness of C16: delete(drop_db=False) of acme has returned: alias
\* acme_db is registered no more, the signal was sent and the database
\* acme_db, which existed, is still on the server.
SoftDeleted ==
    \E c \in Contexts :
        /\ last[c].op = "delete"
        /\ last[c].tenant = "acme"
        /\ ~last[c].drop_db
        /\ last[c].result = "returned"
        /\ last[c].existed
        /\ Len(last[c].signals) = 1
        /\ "acme_db" \in pg_databases
        /\ "acme_db" \notin DOMAIN DATABASES
        /\ "acme_db" \in last[c].signals[1].databases

\* C17: delete(drop_db=True) of a tenant whose database does not exist
\* and whose alias is not registered does not raise (the server accepting
\* the connection), and repeating delete(drop_db=True) after one that
\* returned does not raise and leaves the registry (and the server) as
\* they are.
DropIsIdempotent ==
    [][\A c \in Contexts :
         (Ends(c, "delete") /\ last'[c].drop_db /\ ~last'[c].rejected) =>
            LET res == last'[c]
                r == get_alias_and_config(DATABASES, res.tenant)
                again == delete(DATABASES', pg_databases', res.tenant,
                                TRUE, FALSE)
            IN  /\ (~res.existed /\ r.alias \notin DOMAIN DATABASES)
                       => (res.result = "returned"
                             /\ pg_databases' = pg_databases)
                /\ res.result = "returned" =>
                       /\ ~again.raised
                       /\ again.registry = DATABASES'
                       /\ again.databases = pg_databases'
      ]_vars

\* Witness of C17: delete(drop_db=True) of acme has returned although the
\* database acme_db was not on the server, and acme's alias is not
\* registered.
DroppedWhatWasNotThere ==
    \E c \in Contexts :
        /\ last[c].op = "delete"
        /\ last[c].tenant = "acme"
        /\ last[c].drop_db
        /\ ~last[c].existed
        /\ last[c].result = "returned"
        /\ "acme_db" \notin pg_databases
        /\ "acme_db" \notin DOMAIN DATABASES

\* C18: tenant acme with db_config NAME acme_db: after create() the
\* database acme_db exists and alias acme_db is registered; while acme is
\* the innermost active tenant a TENANT-scoped read goes to alias acme_db;
\* when the outermost activation is left TENANT-scoped reads are routed
\* as with no tenant; after delete(drop_db=True) neither the registry
\* entry nor the database exists.
LifecycleOfAcme ==
    [][\A c \in Contexts :
         /\ (Ends(c, "create") /\ last'[c].tenant = "acme"
                /\ last'[c].result # "raised")
               => ("acme_db" \in pg_databases'
                     /\ "acme_db" \in DOMAIN DATABASES')
         /\ (frames'[c] # << >> /\ Top(frames'[c]).tenant = "acme")
               => \A m \in Managed("TENANT") : db_for_read(c, m)' = "acme_db"
         /\ (Leaves(c) /\ Top(frames[c]).tenant = "acme"
                /\ frames'[c] = << >>)
               => \A m \in Managed("TENANT") : db_for_read(c, m)' = None
         /\ (Ends(c, "delete") /\ last'[c].tenant = "acme"
                /\ last'[c].drop_db /\ last'[c].result = "returned")
               => ("acme_db" \notin pg_databases'
                     /\ "acme_db" \notin DOMAIN DATABASES')
      ]_vars

\* Witness of C18: after its creation and its use, delete(drop_db=True)
\* of acme has dropped the database acme_db, which existed, and the alias
\* is gone; TENANT-scoped reads are routed as with no tenant.
AcmeGone ==
    \E c \in Contexts :
        /\ last[c].op = "delete"
        /\ last[c].tenant = "acme"
        /\ last[c].drop_db
        /\ last[c].existed
        /\ last[c].result = "returned"
        /\ frames[c] = << >>
        /\ "acme_db" \notin pg_databases
        /\ "acme_db" \notin DOMAIN DATABASES
        /\ db_for_read(c, ModelNamed("Cart")) = None

----------------------------------------------------------------------------
(* migratetenants: Command.handle                                          *)

\* The lists Tenant.objects.all() may give the command: every list without
\* repetition of the tenants a DatabaseTenantBackend serves.
BatchTenants == {t \in Tenants : get_tenant_backend(t) = "DatabaseTenantBackend"}

TenantLists ==
    {<< >>} \cup {<<t>> : t \in BatchTenants}
            \cup {l \in BatchTenants \X BatchTenants : l[1] # l[2]}

ReportedSucceeded(t, error) ==
    [tenant |-> t, outcome |-> "succeeded", error |-> error]

\* One line the command writes about a tenant: SUCCESS, or ERROR with the
\* exception it caught.
Reported(t, error) ==
    [tenant |-> t,
     outcome |-> IF error = None THEN "succeeded" ELSE "failed",
     error |-> error]

NextPositionAbort(b, error) ==
    IF error = None THEN b.pos + 1 ELSE Len(b.tenants) + 1

\* The for loop goes on with the next tenant after the try statement,
\* whether its body returned or the except clause caught an exception.
NextPosition(b, error) == b.pos + 1

\* The end of one iteration of the loop: the line written, the next tenant.
Iterated(b, error) ==
    [b EXCEPT !.report = Append(@, Reported(b.tenants[b.pos], error)),
              !.pos = NextPosition(b, error),
              !.waiting = FALSE]

\* No backend.migrate() of the command is under way in c: the blocks open
\* in c, if any, are those of the command's caller.
NoMigrateOpen(c) ==
    IF frames[c] = << >> THEN TRUE ELSE Top(frames[c]).kind # "migrate"

\* The command may be invoked in c: no call of c is under way and the
\* context is below the nesting bound.
CanInvoke(c) ==
    /\ Idle(c)
    /\ NoMigrateOpen(c)
    /\ Len(frames[c]) < MaxDepth

\* The stacks of c as the command finds them.
StacksOf(c) == [tenants |-> tenant_stack[c], aliases |-> db_alias_stack[c]]

\* handle() up to the loop: the options read, the tenants queried.
BatchStart(c, tenants) ==
    /\ batch[c].stage \in {"idle", "done"}
    /\ CanInvoke(c)
    /\ batch' = [batch EXCEPT ![c] =
          [stage |-> "running", tenants |-> tenants, pos |-> 1,
           waiting |-> FALSE, calls |-> << >>, report |-> << >>,
           entry |-> StacksOf(c)]]
    /\ UNCHANGED <<DATABASES, pg_databases, pending, tenant_stack,
                   db_alias_stack, schema, previous_schema, frames, last>>

\* One iteration up to the migrate command: get_tenant_backend(tenant)
\* raises, which the except clause reports, or backend.migrate() starts.
BatchMigrate(c, construct_fails) ==
    /\ batch[c].stage = "running"
    /\ ~batch[c].waiting
    /\ batch[c].pos <= Len(batch[c].tenants)
    /\ LET b == batch[c]
           t == b.tenants[b.pos]
       IN  IF construct_fails
           THEN /\ batch' = [batch EXCEPT ![c] = Iterated(b, "construct")]
                /\ UNCHANGED <<DATABASES, tenant_stack, db_alias_stack,
                               schema, previous_schema, frames>>
           ELSE /\ batch' = [batch EXCEPT ![c] =
                                [b EXCEPT !.waiting = TRUE,
                                          !.calls = Append(@, t)]]
                /\ migrate_enter(c, t, TRUE)
    /\ UNCHANGED <<pg_databases, pending, last>>

\* The rest of the iteration, once backend.migrate() has ended: SUCCESS
\* when it returned, ERROR when it raised.
BatchRecord(c) ==
    /\ batch[c].stage = "running"
    /\ batch[c].waiting
    /\ NoMigrateOpen(c)
    /\ batch' = [batch EXCEPT ![c] =
          Iterated(batch[c], IF last[c].result = "raised"
                             THEN "migrate" ELSE None)]
    /\ UNCHANGED <<DATABASES, pg_databases, pending, tenant_stack,
                   db_alias_stack, schema, previous_schema, frames, last>>

\* The loop is over: handle() returns.
BatchEnd(c) ==
    /\ batch[c].stage = "running"
    /\ ~batch[c].waiting
    /\ batch[c].pos > Len(batch[c].tenants)
    /\ batch' = [batch EXCEPT ![c] =
          [stage |-> "done", tenants |-> batch[c].tenants,
           calls |-> batch[c].calls, report |-> batch[c].report,
           entry |-> batch[c].entry, result |-> "returned"]]
    /\ UNCHANGED <<DATABASES, pg_databases, pending, tenant_stack,
                   db_alias_stack, schema, previous_schema, frames, last>>

BatchNext ==
    \/ \E c \in Contexts, tenants \in TenantLists : BatchStart(c, tenants)
    \/ \E c \in Contexts, construct_fails \in BOOLEAN :
          BatchMigrate(c, construct_fails)
    \/ \E c \in Contexts, fails \in BOOLEAN : CallCommand(c, fails)
    \/ \E c \in Contexts : MigrateExit(c)
    \/ \E c \in Contexts : BatchRecord(c)
    \/ \E c \in Contexts : BatchEnd(c)

BatchSpec == ConcurrentInit /\ [][BatchNext]_vars

\* The tenants of a report whose error is not that of the backend's
\* construction, in the report's order.
RECURSIVE MigratedOf(_)
MigratedOf(report) ==
    IF report = << >> THEN << >>
    ELSE IF Head(report).error = "construct" THEN MigratedOf(Tail(report))
    ELSE <<Head(report).tenant>> \o MigratedOf(Tail(report))

\* C20: migratetenants takes the tenants one at a time in the order of the
\* query: the line it writes about a tenant says failed exactly when the
\* tenant's backend could not be built or its migrate() raised, and the
\* next tenant follows whatever the outcome; when handle() returns, which
\* it does without raising, every tenant has one line, in order, and
\* migrate() was called once, in order, for each tenant whose backend was
\* built.
BatchAttemptsEveryTenant ==
    [][\A c \in Contexts :
         LET b == batch[c]
             n == batch'[c]
         IN  /\ (b.stage = "running" /\ n.stage = "running"
                    /\ n.report # b.report) =>
                   LET e == n.report[Len(n.report)]
                   IN  /\ Len(n.report) = Len(b.report) + 1
                       /\ e.tenant = b.tenants[b.pos]
                       /\ n.pos = b.pos + 1
                       /\ n.tenants = b.tenants
                       /\ e.outcome = "succeeded" <=>
                             /\ b.waiting
                             /\ last[c].op = "migrate"
                             /\ last[c].tenant = e.tenant
                             /\ last[c].result = "returned"
                       /\ e.outcome = "failed" => e.error # None
             /\ (b.stage = "running" /\ n.stage = "done") =>
                   /\ n.result = "returned"
                   /\ Len(n.report) = Len(n.tenants)
                   /\ \A i \in 1..Len(n.tenants) :
                         n.report[i].tenant = n.tenants[i]
                   /\ n.calls = MigratedOf(n.report)
      ]_vars

\* Witness of C20: a run over two tenants has returned; the first tenant's
\* migrate() raised and the second tenant was migrated all the same.
SecondMigratedAfterFirstFailed ==
    \E c \in Contexts :
        /\ batch[c].stage = "done"
        /\ Len(batch[c].tenants) = 2
        /\ batch[c].report[1].outcome = "failed"
        /\ batch[c].report[1].error = "migrate"
        /\ batch[c].report[2].outcome = "succeeded"

----------------------------------------------------------------------------
(* migratetenants zero: the reset of every app of every tenant             *)

\* django_apps.get_app_configs(): the installed apps in their order.
AppConfigs == <<"shop", "core", "auth">>

\* The text of the CommandError Django's migrate raises for an app that
\* has no migrations, and that of any other failure.
NoMigrationsError == "App does not have migrations."
OtherError == "relation does not exist"

SkipsAppNever(error) == FALSE

\* "does not have migrations" in str(app_error): the inner except clause
\* goes on with the next app.
SkipsApp(error) == error = NoMigrationsError

\* handle() with app_label 'zero' and no migration_name, up to the loop.
\* unmigrated: the installed apps that have no migrations.
ZeroStart(c, tenants, unmigrated) ==
    /\ batch[c].stage \in {"idle", "done"}
    /\ CanInvoke(c)
    /\ batch' = [batch EXCEPT ![c] =
          [stage |-> "running", mode |-> "zero", tenants |-> tenants,
           pos |-> 1, app |-> 1, waiting |-> FALSE, error |-> None,
           unmigrated |-> unmigrated, calls |-> << >>, report |-> << >>,
           entry |-> StacksOf(c)]]
    /\ UNCHANGED <<DATABASES, pg_databases, pending, tenant_stack,
                   db_alias_stack, schema, previous_schema, frames, last>>

\* The start of a tenant's iteration, get_tenant_backend(tenant), which
\* may raise, and the start of backend.migrate(app_config.label, "zero").
ZeroMigrate(c, construct_fails) ==
    /\ batch[c].stage = "running"
    /\ ~batch[c].waiting
    /\ batch[c].pos <= Len(batch[c].tenants)
    /\ construct_fails => batch[c].app = 1
    /\ LET b == batch[c]
           t == b.tenants[b.pos]
       IN  IF construct_fails
           THEN /\ batch' = [batch EXCEPT ![c] = Iterated(b, "construct")]
                /\ UNCHANGED <<DATABASES, tenant_stack, db_alias_stack,
                               schema, previous_schema, frames>>
           ELSE /\ batch' = [batch EXCEPT ![c] =
                                [b EXCEPT !.waiting = TRUE,
                                          !.error = None,
                                          !.calls = Append(@,
                                              <<t, AppConfigs[b.app]>>)]]
                /\ migrate_enter(c, t, TRUE)
    /\ UNCHANGED <<pg_databases, pending, last>>

\* call_command("migrate", label, "zero", database=db_alias): CommandError
\* for an app without migrations, some other exception, or the app's
\* migrations unapplied.
ZeroCommand(c, fails) ==
    /\ batch[c].stage = "running"
    /\ batch[c].waiting
    /\ frames[c] # << >>
    /\ Top(frames[c]).cmd = "running"
    /\ LET app == AppConfigs[batch[c].app]
           error == IF app \in batch[c].unmigrated THEN NoMigrationsError
                    ELSE IF fails THEN OtherError ELSE None
       IN  /\ frames' = [frames EXCEPT
                 ![c][Len(frames[c])].cmd =
                     IF error = None THEN "ok" ELSE "exc"]
           /\ batch' = [batch EXCEPT ![c].error = error]
    /\ UNCHANGED <<DATABASES, pg_databases, pending, tenant_stack,
                   db_alias_stack, schema, previous_schema, last>>

\* After backend.migrate() of one app has ended: the next app when it
\* returned or the app is skipped, SUCCESS after the last app, ERROR when
\* the exception is raised again.
ZeroRecord(c) ==
    /\ batch[c].stage = "running"
    /\ batch[c].waiting
    /\ NoMigrateOpen(c)
    /\ LET b == batch[c]
           raised == last[c].result = "raised"
       IN  batch' = [batch EXCEPT ![c] =
              IF raised /\ ~SkipsApp(b.error)
              THEN [Iterated(b, "migrate") EXCEPT !.app = 1]
              ELSE IF b.app < Len(AppConfigs)
              THEN [b EXCEPT !.app = @ + 1, !.waiting = FALSE]
              ELSE [Iterated(b, None) EXCEPT !.app = 1]]
    /\ UNCHANGED <<DATABASES, pg_databases, pending, tenant_stack,
                   db_alias_stack, schema, previous_schema, frames, last>>

ZeroNext ==
    \/ \E c \in Running, tenants \in TenantLists,
          unmigrated \in SUBSET InstalledApps :
          ZeroStart(c, tenants, unmigrated)
    \/ \E c \in Running, construct_fails \in BOOLEAN :
          ZeroMigrate(c, construct_fails)
    \/ \E c \in Running, fails \in BOOLEAN : ZeroCommand(c, fails)
    \/ \E c \in Running : MigrateExit(c)
    \/ \E c \in Running : ZeroRecord(c)
    \/ \E c \in Running : BatchEnd(c)

ZeroSpec == ConcurrentInit /\ [][ZeroNext]_vars

\* The apps migrate() was called for on behalf of tenant t, in call order.
RECURSIVE AppsCalledFor(_, _)
AppsCalledFor(calls, t) ==
    IF calls = << >> THEN << >>
    ELSE IF Head(calls)[1] = t
         THEN <<Head(calls)[2]>> \o AppsCalledFor(Tail(calls), t)
         ELSE AppsCalledFor(Tail(calls), t)

\* C21: migratetenants zero.  When the migrate() of an app ends with the
\* error of an app without migrations, the run goes on with the tenant's
\* next app, or, after the last app, reports the tenant succeeded; a
\* tenant is reported failed only when its backend could not be built or
\* a migrate() raised another error; when handle() returns, every tenant
\* has one line, in order, and for every tenant reported succeeded
\* migrate(app, "zero") was requested for every installed app, once, in
\* the apps' order.
ZeroSkipsAppsWithoutMigrations ==
    [][\A c \in Running :
         LET b == batch[c]
             n == batch'[c]
         IN  /\ (b.stage = "running" /\ b.waiting /\ ~n.waiting
                    /\ last[c].result = "raised"
                    /\ b.error = NoMigrationsError) =>
                   IF b.app < Len(AppConfigs)
                   THEN /\ n.pos = b.pos
                        /\ n.app = b.app + 1
                        /\ n.report = b.report
                   ELSE /\ n.pos = b.pos + 1
                        /\ n.app = 1
                        /\ n.report = Append(b.report,
                              [tenant |-> b.tenants[b.pos],
                               outcome |-> "succeeded", error |-> None])
             /\ (b.stage = "running" /\ n.stage = "running"
                    /\ n.report # b.report
                    /\ n.report[Len(n.report)].outcome = "failed") =>
                   \/ ~b.waiting /\ b.app = 1
                   \/ /\ b.waiting
                      /\ last[c].result = "raised"
                      /\ b.error = OtherError
             /\ (b.stage = "running" /\ n.stage = "done") =>
                   /\ n.result = "returned"
                   /\ Len(n.report) = Len(n.tenants)
                   /\ \A i \in 1..Len(n.tenants) :
                         /\ n.report[i].tenant = n.tenants[i]
                         /\ n.report[i].outcome = "succeeded" =>
                               AppsCalledFor(n.calls, n.tenants[i]) = AppConfigs
      ]_vars

\* Witness of C21: a zero run over two tenants has returned with an app
\* without migrations installed; both tenants are reported succeeded.
ZeroRunSkippedAnApp ==
    \E c \in Running :
        /\ batch[c].stage = "done"
        /\ Len(batch[c].tenants) = 2
        /\ Len(batch[c].calls) = 2 * Len(AppConfigs)
        /\ batch[c].report[1].outcome = "succeeded"
        /\ batch[c].report[2].outcome = "succeeded"
        /\ last[c].result = "raised"

----------------------------------------------------------------------------
(* get_alias_and_config over the db_config a tenant may carry              *)

\* dict without the keys ks
Without(d, ks) == [k \in DOMAIN d \ ks |-> d[k]]

\* The db_config dicts: each field absent, set to a falsy value, or set.
TenantConfigs ==
    { n @@ h @@ p @@ o @@ a @@ t :
        n \in {EmptyDict, [NAME |-> ""], [NAME |-> "t_db"]},
        h \in {EmptyDict, [HOST |-> ""], [HOST |-> "a"]},
        p \in {EmptyDict, [PORT |-> ""], [PORT |-> "6432"]},
        o \in {EmptyDict, [OPTIONS |-> EmptyDict],
               [OPTIONS |-> [options |-> OptTenantSchema]]},
        a \in {EmptyDict, [ATOMIC_REQUESTS |-> FALSE],
               [ATOMIC_REQUESTS |-> TRUE]},
        t \in {EmptyDict, [TEST |-> [NAME |-> "t_test"]]} }

\* Master entries that set or leave out HOST and PORT, with a TEST dict
\* that names a test database or not.
ResolveInit ==
    /\ \E mc \in MasterConfigsWith({TestNamed, TestUnnamed}),
          ks \in SUBSET {"HOST", "PORT"} :
          /\ mc.OPTIONS.options = OptPublic
          /\ DATABASES = [a \in {MASTER_DB_ALIAS} |-> Without(mc, ks)]
    /\ pg_databases = {"master_db"}
    /\ batch = [c \in Contexts |-> NoBatch]
    /\ pending = [c \in Contexts |-> NoCall]
    /\ tenant_stack = [c \in Contexts |-> << >>]
    /\ db_alias_stack = [c \in Contexts |-> << >>]
    /\ schema = [c \in Contexts |-> "public"]
    /\ previous_schema = [c \in Contexts |-> [b \in BackendIds |-> Unset]]
    /\ frames = [c \in Contexts |-> << >>]
    /\ last = [c \in Contexts |-> NoResult]

\* get_alias_and_config(tenant) of a tenant whose db_config is cfg.
Resolve(c, cfg) ==
    /\ last' = [last EXCEPT ![c] =
          [op |-> "get_alias_and_config", db_config |-> cfg,
           base |-> Get(DATABASES, MASTER_DB_ALIAS, EmptyDict),
           alias |-> AliasOf(cfg),
           config |-> resolved_config(DATABASES, cfg)]]
    /\ DATABASES' = registry_after_resolve(DATABASES, cfg)
    /\ UNCHANGED <<pg_databases, batch, pending, tenant_stack,
                   db_alias_stack, schema, previous_schema, frames>>

ResolveNext == \E c \in Running, cfg \in TenantConfigs : Resolve(c, cfg)

ResolveSpec == ResolveInit /\ [][ResolveNext]_vars

\* The fields of the returned dict the model carries, and the value each
\* takes when neither the tenant nor the master sets it.
ConfigFields ==
    {"ENGINE", "NAME", "HOST", "PORT", "OPTIONS", "ATOMIC_REQUESTS", "TEST"}

HardDefault(field) ==
    CASE field = "ENGINE"          -> DefaultEngine
      [] field = "OPTIONS"         -> EmptyDict
      [] field = "ATOMIC_REQUESTS" -> FALSE
      [] field = "TEST"            -> EmptyDict
      [] OTHER                     -> None

\* C22: every field of the returned configuration other than TEST is the
\* tenant's own value when db_config sets the field, whatever the value,
\* else the master entry's value, else the hard default, each field on
\* its own.
ResolvedByPrecedence ==
    \A c \in Running :
        last[c].op = "get_alias_and_config" =>
            \A f \in ConfigFields \ {"TEST"} :
                last[c].config[f] =
                    IF f \in DOMAIN last[c].db_config
                    THEN last[c].db_config[f]
                    ELSE Get(last[c].base, f, HardDefault(f))

----------------------------------------------------------------------------
(* activate() and deactivate() that fail part-way                          *)

\* Where activate() raises: nowhere, between push_db_alias and the
\* assignment of previous_schema (an exception get_active_schema_name's
\* `except Exception` does not catch), or in connection.set_schema.
ActivateFaults == {"none", "before_save", "set_schema"}

\* deactivate() that restores the schema before it pops the alias.
deactivate_restoring_first(c, b, fs, restore_ok) ==
    LET fails == previous_schema[c][b] = Unset \/ ~restore_ok
    IN  /\ db_alias_stack' =
             IF fails THEN db_alias_stack
             ELSE [db_alias_stack EXCEPT ![c] = DeactivatedAliases(@)]
        /\ schema' = IF fails THEN schema
                     ELSE [schema EXCEPT ![c] = RestoredSchema(c, b)]
        /\ previous_schema' =
             [previous_schema EXCEPT ![c][b] =
                  IF b \in BackendsOf(fs) THEN @ ELSE Unset]

\* deactivate() of backend object b whose set_schema may raise: the alias
\* is popped first; set_schema(self.previous_schema) raises when the
\* attribute was never assigned or when the connection refuses.
deactivate_or_raise(c, b, fs, restore_ok) ==
    LET fails == previous_schema[c][b] = Unset \/ ~restore_ok
    IN  /\ db_alias_stack' =
             [db_alias_stack EXCEPT ![c] = DeactivatedAliases(@)]
        /\ schema' = IF fails THEN schema
                     ELSE [schema EXCEPT ![c] = RestoredSchema(c, b)]
        /\ previous_schema' =
             [previous_schema EXCEPT ![c][b] =
                  IF b \in BackendsOf(fs) THEN @ ELSE Unset]

\* try: backend.activate() of a new DatabaseTenantBackend, which may raise
\* part-way; the finally clause of the block is still to run.
ActivateOrRaise(c, t, fault, query_ok) ==
    /\ CanEnter(c)
    /\ get_tenant_backend(t) = "DatabaseTenantBackend"
    /\ LET b == NewBackend(c)
       IN  /\ DATABASES' = LazyBind(DATABASES, t)
           /\ db_alias_stack' = [db_alias_stack EXCEPT ![c] =
                                    push_db_alias(@, ActivatedAlias(t))]
           /\ previous_schema' =
                IF fault = "before_save" THEN previous_schema
                ELSE [previous_schema EXCEPT ![c][b] =
                         get_active_schema_name(c, query_ok)]
           /\ schema' =
                IF fault = "none"
                THEN [schema EXCEPT ![c] =
                         ActivatedSchema("DatabaseTenantBackend", t)]
                ELSE schema
           /\ frames' = [frames EXCEPT ![c] =
                 Append(@, Frame("manual", t, b, "DatabaseTenantBackend",
                                 "none", c))]
    /\ last' = [last EXCEPT ![c] =
          [op |-> "activate", tenant |-> t,
           result |-> IF fault = "none" THEN "returned" ELSE "raised"]]
    /\ UNCHANGED <<tenant_stack, outside>>

\* finally: backend.deactivate() of the innermost manual block.
DeactivateOrRaise(c, restore_ok) ==
    /\ frames[c] # << >>
    /\ Top(frames[c]).kind = "manual"
    /\ LET b == Top(frames[c]).backend
       IN  /\ deactivate_or_raise(c, b, Pop(frames[c]), restore_ok)
           /\ last' = [last EXCEPT ![c] =
                 [op |-> "deactivate", tenant |-> Top(frames[c]).tenant,
                  saved |-> previous_schema[c][b] # Unset,
                  result |-> IF previous_schema[c][b] = Unset \/ ~restore_ok
                             THEN "raised" ELSE "returned"]]
    /\ frames' = [frames EXCEPT ![c] = Pop(@)]
    /\ UNCHANGED <<DATABASES, tenant_stack, outside>>

FaultNext ==
    \/ \E c \in Running, t \in Tenants, fault \in ActivateFaults,
          query_ok \in BOOLEAN : ActivateOrRaise(c, t, fault, query_ok)
    \/ \E c \in Running, restore_ok \in BOOLEAN :
          DeactivateOrRaise(c, restore_ok)
    \/ \E c \in Running, t \in Tenants, query_ok \in BOOLEAN :
          UseTenantEnter(c, t, query_ok)
    \/ \E c \in Running : UseTenantExit(c)

FaultSpec == Init /\ [][FaultNext]_vars

\* C23: every deactivate() takes exactly the top entry off the alias
\* stack, also when set_schema raises or when the matching activate()
\* raised before it saved the schema; a failed restoration ends the call
\* with the exception and leaves the connection's schema as it was.
DeactivateAlwaysPops ==
    [][\A c \in Running :
         (Leaves(c) /\ Top(frames[c]).kind = "manual") =>
            /\ db_alias_stack[c] # << >>
            /\ db_alias_stack'[c] = Pop(db_alias_stack[c])
            /\ last'[c].op = "deactivate"
            /\ last'[c].result = "raised" => schema'[c] = schema[c]
            /\ previous_schema[c][Top(frames[c]).backend] = Unset =>
                   last'[c].result = "raised"
      ]_vars

\* Witness of C23: the deactivate() of a block whose activate() raised
\* before the schema was saved has raised, and the alias stack is empty.
PoppedAfterPartialActivate ==
    \E c \in Running :
        /\ last[c].op = "deactivate"
        /\ last[c].result = "raised"
        /\ frames[c] = << >>
        /\ db_alias_stack[c] = << >>
        /\ ~last[c].saved

----------------------------------------------------------------------------
(* Table-isolated tenants and the master database                          *)

\* C24: create() and delete() of the backend get_tenant_backend gives a
\* table-isolated tenant create no database and drop none.
TableTenantTouchesNoDatabase ==
    [][\A c \in Contexts :
         \A op \in {"create", "delete"} :
            (Ends(c, op) /\ isolation_type(last'[c].tenant) = "TABLE") =>
                pg_databases' = pg_databases
      ]_vars

----------------------------------------------------------------------------
(* utils.convert_to_valid_pgsql_schema_name                                *)

\* Texts are sequences of characters.
LowerLetters ==
    {"a","b","c","d","e","f","g","h","i","j","k","l","m",
     "n","o","p","q","r","s","t","u","v","w","x","y","z"}
UpperLetters == {"G", "P"}
Digits == {"0","1","2","3","4","5","6","7","8","9"}

\* str.lower() of one character of the alphabet used here.
Lower(ch) ==
    CASE ch = "G" -> "g"
      [] ch = "P" -> "p"
      [] OTHER    -> ch

\* A character the class [^a-zA-Z0-9_] does not match.
WordChar(ch) == ch \in LowerLetters \cup UpperLetters \cup Digits \cup {"_"}

\* re.sub(r"[^a-zA-Z0-9_]", "_", name.lower())
Sanitized(name) ==
    [i \in 1..Len(name) |->
        IF WordChar(Lower(name[i])) THEN Lower(name[i]) ELSE "_"]

\* PostgreSQL's limit on the length of an identifier.
PG_IDENTIFIER_LIMIT == 63

TruncatedNever(name) == name

\* name[:63]
Truncated(name) ==
    IF Len(name) <= PG_IDENTIFIER_LIMIT THEN name
    ELSE SubSeq(name, 1, PG_IDENTIFIER_LIMIT)

S_pg == <<"p","g","_">>
S_x == <<"x","_">>
S_default_schema ==
    <<"d","e","f","a","u","l","t","_","s","c","h","e","m","a">>

\* str.startswith
StartsWith(text, prefix) ==
    Len(text) >= Len(prefix) /\ SubSeq(text, 1, Len(prefix)) = prefix

\* if name.startswith("pg_"): name = f"x_{name[3:]}" or "x"
Unreserved(name) ==
    IF StartsWith(name, S_pg) THEN S_x \o SubSeq(name, 4, Len(name))
    ELSE name

convert_to_valid_pgsql_schema_name(name) ==
    LET n == Unreserved(Truncated(Sanitized(name)))
    IN  IF n = << >> THEN S_default_schema ELSE n

\* The inputs: every text of up to MaxPrefix characters of a small
\* alphabet, followed by nothing or by a run of one character that takes
\* the text to the length limit and beyond; and the docstring's examples.
MaxPrefix == 3

NameAlphabet == {"p", "g", "G", "_", "!", "7"}

Prefixes == UNION {[1..n -> NameAlphabet] : n \in 0..MaxPrefix}

RunLengths == {0, 59, 60, 61, 62, 63, 64}

Runs == {[i \in 1..n |-> ch] : n \in RunLengths, ch \in {"a", "!"}}

S_pg_custom == S_pg \o <<"c","u","s","t","o","m">>

NameInputs ==
    {pre \o run : pre \in Prefixes, run \in Runs}
        \cup {S_pg_custom, S_pg \o S_pg \o <<"x">>, <<"!","!","!","@","@","#","#">>}

\* A call of the function is about to be made in the running context.
NormalizeInit ==
    /\ \E mc \in MasterConfigs : DATABASES = [a \in {MASTER_DB_ALIAS} |-> mc]
    /\ pg_databases = {"master_db"}
    /\ batch = [c \in Contexts |-> NoBatch]
    /\ \E name \in NameInputs :
          pending = [c \in Contexts |->
                        IF c \in Running
                        THEN [op |-> "convert_to_valid_pgsql_schema_name",
                              name |-> name]
                        ELSE NoCall]
    /\ tenant_stack = [c \in Contexts |-> << >>]
    /\ db_alias_stack = [c \in Contexts |-> << >>]
    /\ schema = [c \in Contexts |-> "public"]
    /\ previous_schema = [c \in Contexts |-> [b \in BackendIds |-> Unset]]
    /\ frames = [c \in Contexts |-> << >>]
    /\ last = [c \in Contexts |-> NoResult]

\* The call returns.
Normalize(c) ==
    /\ pending[c].op = "convert_to_valid_pgsql_schema_name"
    /\ last' = [last EXCEPT ![c] =
          [op |-> pending[c].op, name |-> pending[c].name,
           result |-> convert_to_valid_pgsql_schema_name(pending[c].name)]]
    /\ pending' = [pending EXCEPT ![c] = NoCall]
    /\ UNCHANGED <<DATABASES, pg_databases, batch, tenant_stack,
                   db_alias_stack, schema, previous_schema, frames>>

NormalizeNext == \E c \in Running : Normalize(c)

NormalizeSpec == NormalizeInit /\ [][NormalizeNext]_vars

Normalized(c) == last[c].op = "convert_to_valid_pgsql_schema_name"

\* C25: an input without any letter, digit or underscore, the empty text
\* included, is normalised to "default_schema".
NoWordCharGivesDefault ==
    \A c \in Running :
        (Normalized(c)
            /\ \A i \in 1..Len(last[c].name) : ~WordChar(last[c].name[i]))
        => last[c].result = S_default_schema

\* C26: the result is never empty, is at most 63 characters long, holds
\* only lowercase letters, digits and underscores, and does not start with
\* "pg_"; for an input that starts with "pg_" it is the input's sanitized
\* text cut to the limit with "x_" in place of that prefix.
ResultIsValidIdentifier ==
    \A c \in Running :
        Normalized(c) =>
            LET name == last[c].name
                r == last[c].result
            IN  /\ r # << >>
                /\ Len(r) <= 63
                /\ \A i \in 1..Len(r) :
                      r[i] \in LowerLetters \cup Digits \cup {"_"}
                /\ ~StartsWith(r, S_pg)
                /\ StartsWith(name, S_pg) =>
                      /\ StartsWith(r, S_x)
                      /\ Len(r) = (IF Len(name) <= 63 THEN Len(name) ELSE 63) - 1
                      /\ \A i \in 3..Len(r) :
                            r[i] = IF WordChar(name[i + 1])
                                   THEN Lower(name[i + 1]) ELSE "_"

\* Witness of C26: a text of more than 63 characters that starts with
\* "pg_" has been normalised.
LongReservedNameNormalized ==
    \E c \in Running :
        /\ Normalized(c)
        /\ Len(last[c].name) > 63
        /\ StartsWith(last[c].name, S_pg)

----------------------------------------------------------------------------
(* bootstrap: _BootStrapper.run                                            *)

\* self._patches as __init__ sets it.
BuiltinPatches ==
    <<"django_omnitenant.patches.cache", "django_omnitenant.patches.celery",
      "django_omnitenant.patches.settings">>

\* The values OMNITENANT_CONFIG may give PATCHES: a list, a tuple or a
\* text, each with its items.
PatchesValues ==
    { [type |-> "list", items |-> << >>],
      [type |-> "list", items |-> <<"myapp.patches.a">>],
      [type |-> "tuple", items |-> <<"myapp.patches.a">>],
      [type |-> "str", items |-> << >>] }

\* The OMNITENANT_CONFIG dicts: each key absent, or set to one of its
\* values.  "shop.Tenant" names a model, "ghost.Tenant" names none.
OmnitenantConfigs ==
    { m @@ d @@ h @@ ps :
        m \in {EmptyDict} \cup
              {[TENANT_MODEL |-> v] : v \in {"", "shop.Tenant", "ghost.Tenant"}},
        d \in {EmptyDict} \cup {[DOMAIN_MODEL |-> v] : v \in {"shop.Domain"}},
        h \in {EmptyDict} \cup
              {[PUBLIC_HOST |-> v] : v \in {"", "example.com"}},
        ps \in {EmptyDict} \cup {[PATCHES |-> v] : v \in PatchesValues} }

\* _parse: the error it raises, or None.
parse_error(config) ==
    IF "PATCHES" \in DOMAIN config
          /\ config.PATCHES.type \notin {"list", "tuple"}
    THEN "ImproperlyConfigured" ELSE None

\* _parse: self._patches after the extend.  Without PATCHES in the
\* config, get() gives self._patches itself, which is extended by itself.
parsed_patches(config) ==
    IF "PATCHES" \in DOMAIN config
    THEN BuiltinPatches \o config.PATCHES.items
    ELSE BuiltinPatches \o BuiltinPatches

validation_error_without_host(config) ==
    IF ~Truthy(Get(config, "TENANT_MODEL", "")) THEN "ImproperlyConfigured"
    ELSE IF config.TENANT_MODEL = "ghost.Tenant" THEN "ImproperlyConfigured"
    ELSE None

\* _run_validation: the error it raises, or None.
validation_error(config) ==
    IF ~Truthy(Get(config, "TENANT_MODEL", "")) THEN "ImproperlyConfigured"
    ELSE IF config.TENANT_MODEL = "ghost.Tenant" THEN "ImproperlyConfigured"
    ELSE IF ~Truthy(Get(config, "PUBLIC_HOST", "")) THEN "ImproperlyConfigured"
    ELSE None

\* AppConfig.ready() is about to call app_bootstrapper.run().
BootInit ==
    /\ \E mc \in MasterConfigs : DATABASES = [a \in {MASTER_DB_ALIAS} |-> mc]
    /\ pg_databases = {"master_db"}
    /\ batch = [c \in Contexts |-> NoBatch]
    /\ \E config \in OmnitenantConfigs :
          pending = [c \in Contexts |->
                        IF c \in Running
                        THEN [op |-> "run", stage |-> "parse",
                              config |-> config, patches |-> BuiltinPatches,
                              imported |-> << >>, error |-> None]
                        ELSE NoCall]
    /\ tenant_stack = [c \in Contexts |-> << >>]
    /\ db_alias_stack = [c \in Contexts |-> << >>]
    /\ schema = [c \in Contexts |-> "public"]
    /\ previous_schema = [c \in Contexts |-> [b \in BackendIds |-> Unset]]
    /\ frames = [c \in Contexts |-> << >>]
    /\ last = [c \in Contexts |-> NoResult]

Booting(c, stage) == pending[c].op = "run" /\ pending[c].stage = stage

\* What a step of run() leaves alone.
BootUnchanged ==
    UNCHANGED <<DATABASES, pg_databases, batch, tenant_stack, db_alias_stack,
                schema, previous_schema, frames, last>>

\* self._parse()
Parse(c) ==
    /\ Booting(c, "parse")
    /\ LET e == parse_error(pending[c].config)
       IN  pending' = [pending EXCEPT ![c] =
              IF e # None
              THEN [@ EXCEPT !.stage = "failed", !.error = e]
              ELSE [@ EXCEPT !.stage = "validate",
                             !.patches = parsed_patches(pending[c].config)]]
    /\ BootUnchanged

\* self._run_validation()
Validate(c) ==
    /\ Booting(c, "validate")
    /\ LET e == validation_error(pending[c].config)
       IN  pending' = [pending EXCEPT ![c] =
              IF e # None
              THEN [@ EXCEPT !.stage = "failed", !.error = e]
              ELSE [@ EXCEPT !.stage = "patches"]]
    /\ BootUnchanged

\* One turn of the loop of _run_patches: import_module(patch) returns or
\* raises.
ImportPatch(c, fails) ==
    /\ Booting(c, "patches")
    /\ Len(pending[c].imported) < Len(pending[c].patches)
    /\ pending' = [pending EXCEPT ![c] =
          IF fails
          THEN [@ EXCEPT !.stage = "failed", !.error = "Exception"]
          ELSE [@ EXCEPT !.imported =
                    Append(@, pending[c].patches[Len(@) + 1])]]
    /\ BootUnchanged

\* run() returns: the application is ready.
BootReady(c) ==
    /\ Booting(c, "patches")
    /\ Len(pending[c].imported) = Len(pending[c].patches)
    /\ pending' = [pending EXCEPT ![c].stage = "ready"]
    /\ BootUnchanged

BootNext ==
    \/ \E c \in Running : Parse(c)
    \/ \E c \in Running : Validate(c)
    \/ \E c \in Running, fails \in BOOLEAN : ImportPatch(c, fails)
    \/ \E c \in Running : BootReady(c)

BootSpec == BootInit /\ [][BootNext]_vars

\* The configuration lacks the tenant model reference or the public host.
LacksRequired(config) ==
    \/ Get(config, "TENANT_MODEL", "") = ""
    \/ Get(config, "PUBLIC_HOST", "") = ""

----------------------------------------------------------------------------
(* The registry under activation and deletion                              *)

\* Context c enters a use_tenant block of a DatabaseTenantBackend tenant.
ActivatesDatabaseTenant(c) ==
    /\ Len(frames'[c]) = Len(frames[c]) + 1
    /\ Top(frames'[c]).kind = "use_tenant"
    /\ Top(frames'[c]).class = "DatabaseTenantBackend"

\* C28: when activate() of a DatabaseTenantBackend has returned, the alias
\* it pushed is registered; an alias registered before the call keeps its
\* entry, and every other entry of the registry is as it was.
ActivateBindsOnlyWhenAbsent ==
    [][\A c \in Contexts :
         ActivatesDatabaseTenant(c) =>
            LET a == Top(db_alias_stack'[c])
            IN  /\ a \in DOMAIN DATABASES'
                /\ \A x \in DOMAIN DATABASES :
                      (x # a \/ a \in DOMAIN DATABASES) =>
                          /\ x \in DOMAIN DATABASES'
                          /\ DATABASES'[x] = DATABASES[x]
                /\ DOMAIN DATABASES' \subseteq DOMAIN DATABASES \cup {a}
      ]_vars

\* C29: the alias on top of every context's stack is registered.
ActiveAliasRegistered ==
    \A c \in Contexts :
        db_alias_stack[c] # << >> =>
            Top(db_alias_stack[c]) \in DOMAIN DATABASES

\* C30: the master alias stays registered with the entry it started with,
\* and the master database stays on the server.
MasterIntact ==
    /\ "master_db" \in pg_databases
    /\ MASTER_DB_ALIAS \in DOMAIN DATABASES
    /\ \A k \in {"NAME", "HOST", "PORT", "OPTIONS"} :
          /\ k \in DOMAIN DATABASES[MASTER_DB_ALIAS]
          /\ DATABASES[MASTER_DB_ALIAS][k] \in
                {mc[k] : mc \in MasterConfigsWith({TestNamed})}

----------------------------------------------------------------------------
(* get_alias_and_config and the registry                                   *)

\* C31: get_alias_and_config leaves the registry as it found it, the
\* master entry's TEST and OPTIONS dicts included.
ResolveLeavesRegistry ==
    [][\A c \in Running :
         Ends(c, "get_alias_and_config") => DATABASES' = DATABASES
      ]_vars

----------------------------------------------------------------------------
(* createtenantsuperuser: the database the superuser is created in         *)

\* The db_config dicts of a database-isolated tenant: ALIAS, DB_ALIAS and
\* NAME each absent or set, ALIAS and NAME also set to the empty text.
SuperuserConfigs ==
    { a @@ d @@ n :
        a \in {EmptyDict, [ALIAS |-> ""], [ALIAS |-> "acme_alias"]},
        d \in {EmptyDict, [DB_ALIAS |-> "acme_alt"]},
        n \in {EmptyDict, [NAME |-> ""], [NAME |-> "acme_db"]} }

\* options["database"] = db_config.get("DB_ALIAS", db_config.get("NAME"))
superuser_database(cfg) == Get(cfg, "DB_ALIAS", Get(cfg, "NAME", None))

\* The command is about to enter the context of a database-isolated
\* tenant whose db_config is drawn here.
SuperuserInit ==
    /\ \E mc \in MasterConfigsWith({TestNamed, TestUnnamed}) :
          DATABASES = [a \in {MASTER_DB_ALIAS} |-> mc]
    /\ pg_databases = {"master_db"}
    /\ batch = [c \in Contexts |-> NoBatch]
    /\ \E cfg \in SuperuserConfigs :
          pending = [c \in Contexts |->
                        IF c \in Running
                        THEN [op |-> "createtenantsuperuser", db_config |-> cfg]
                        ELSE NoCall]
    /\ tenant_stack = [c \in Contexts |-> << >>]
    /\ db_alias_stack = [c \in Contexts |-> << >>]
    /\ schema = [c \in Contexts |-> "public"]
    /\ previous_schema = [c \in Contexts |-> [b \in BackendIds |-> Unset]]
    /\ frames = [c \in Contexts |-> << >>]
    /\ last = [c \in Contexts |-> NoResult]

\* with TenantContext.use_tenant(tenant): activate() binds the alias when
\* it is absent and pushes it; the command then picks the database for
\* Django's createsuperuser.
SuperuserEnter(c) ==
    /\ pending[c].op = "createtenantsuperuser"
    /\ LET cfg == pending[c].db_config
           alias == AliasOf(cfg)
       IN  /\ DATABASES' =
                IF alias \in DOMAIN DATABASES THEN DATABASES
                ELSE Register(registry_after_resolve(DATABASES, cfg), alias,
                              resolved_config(DATABASES, cfg))
           /\ db_alias_stack' = [db_alias_stack EXCEPT ![c] =
                                    push_db_alias(@, alias)]
           /\ last' = [last EXCEPT ![c] =
                 [op |-> "createtenantsuperuser", db_config |-> cfg,
                  database |-> superuser_database(cfg)]]
    /\ pending' = [pending EXCEPT ![c] = NoCall]
    /\ UNCHANGED <<pg_databases, batch, tenant_stack, schema,
                   previous_schema, frames>>

SuperuserNext == \E c \in Running : SuperuserEnter(c)

SuperuserSpec == SuperuserInit /\ [][SuperuserNext]_vars

\* C32: for a db_config that sets ALIAS or NAME, the database
\* createtenantsuperuser hands to the superuser creation is the alias the
\* tenant's activation pushed, and that alias is registered.
SuperuserInTenantDatabase ==
    \A c \in Running :
        (last[c].op = "createtenantsuperuser"
            /\ \/ Truthy(Get(last[c].db_config, "ALIAS", None))
               \/ Truthy(Get(last[c].db_config, "NAME", None))) =>
            /\ last[c].database = Top(db_alias_stack[c])
            /\ last[c].database \in DOMAIN DATABASES

----------------------------------------------------------------------------
(* createtenantsuperuser: Command.handle                                   *)

\* The values of --tenant-id: the tenants' ids and one no tenant has.
TenantIds == Tenants \cup {"ghost"}

superuser_lookup_or_first(tenant_id) ==
    IF tenant_id \in Tenants THEN tenant_id ELSE "acme"

\* Tenant.objects.get(tenant_id=tenant_id): the tenant, or None for
\* Tenant.DoesNotExist.
superuser_lookup(tenant_id) ==
    IF tenant_id \in Tenants THEN tenant_id ELSE None

\* The command is invoked with --tenant-id.
SuperuserRequest(c, tenant_id) ==
    /\ Idle(c)
    /\ pending' = [pending EXCEPT ![c] =
          [op |-> "createtenantsuperuser", tenant_id |-> tenant_id]]
    /\ UNCHANGED <<DATABASES, pg_databases, batch, tenant_stack,
                   db_alias_stack, schema, previous_schema, frames, last>>

\* handle() up to the superuser creation: CommandError when no tenant has
\* the id, else the tenant's context is entered.
SuperuserLookup(c, query_ok) ==
    /\ pending[c].op = "createtenantsuperuser"
    /\ "tenant_id" \in DOMAIN pending[c]
    /\ superuser_lookup(pending[c].tenant_id) # None => CanEnter(c)
    /\ LET t == superuser_lookup(pending[c].tenant_id)
       IN  IF t = None
           THEN /\ last' = [last EXCEPT ![c] =
                      [op |-> "createtenantsuperuser",
                       tenant_id |-> pending[c].tenant_id,
                       result |-> "CommandError"]]
                /\ UNCHANGED <<DATABASES, tenant_stack, db_alias_stack,
                               schema, previous_schema, frames>>
           ELSE /\ use_tenant_enter(DATABASES, c, t, "superuser", "running",
                                    query_ok)
                /\ UNCHANGED last
    /\ pending' = [pending EXCEPT ![c] = NoCall]
    /\ UNCHANGED <<pg_databases, batch>>

\* super().handle(*args, **options): Django's createsuperuser returns or
\* raises.
SuperuserCreate(c, fails) ==
    /\ frames[c] # << >>
    /\ Top(frames[c]).kind = "superuser"
    /\ Top(frames[c]).cmd = "running"
    /\ frames' = [frames EXCEPT ![c][Len(frames[c])].cmd =
                     IF fails THEN "exc" ELSE "ok"]
    /\ UNCHANGED <<DATABASES, tenant_stack, db_alias_stack, schema,
                   previous_schema, last, outside>>

\* The with block is left; handle() returns or the exception goes on.
SuperuserExit(c) ==
    /\ frames[c] # << >>
    /\ Top(frames[c]).kind = "superuser"
    /\ Top(frames[c]).cmd \in {"ok", "exc"}
    /\ use_tenant_exit(c)
    /\ last' = [last EXCEPT ![c] =
          [op |-> "createtenantsuperuser",
           tenant_id |-> Top(frames[c]).tenant,
           result |-> IF Top(frames[c]).cmd = "exc"
                      THEN "raised" ELSE "returned"]]
    /\ UNCHANGED outside

SuperuserCommandNext ==
    \/ \E c \in Running, tenant_id \in TenantIds :
          SuperuserRequest(c, tenant_id)
    \/ \E c \in Running, query_ok \in BOOLEAN : SuperuserLookup(c, query_ok)
    \/ \E c \in Running, fails \in BOOLEAN : SuperuserCreate(c, fails)
    \/ \E c \in Running : SuperuserExit(c)
    \/ \E c \in Running, t \in Tenants, query_ok \in BOOLEAN :
          UseTenantEnter(c, t, query_ok)
    \/ \E c \in Running : UseTenantExit(c)

SuperuserCommandSpec == Init /\ [][SuperuserCommandNext]_vars

\* C33: createtenantsuperuser with an id no tenant has ends with a
\* command error and leaves the tenant stack, the alias stack and the open
\* blocks as they were, so that no context is entered and no superuser
\* creation starts; with an id a tenant has it enters that tenant's
\* context and no other; and when the command's block is left, after a
\* creation that returned or raised, the tenant stack and the alias stack
\* are those of the command's entry.
SuperuserForKnownTenantOnly ==
    [][\A c \in Running :
         /\ (pending[c].op = "createtenantsuperuser"
                /\ "tenant_id" \in DOMAIN pending[c]
                /\ pending'[c] = NoCall) =>
               IF pending[c].tenant_id \in Tenants
               THEN /\ frames'[c] # << >>
                    /\ Len(frames'[c]) = Len(frames[c]) + 1
                    /\ Top(frames'[c]).tenant = pending[c].tenant_id
                    /\ Top(tenant_stack'[c]) = pending[c].tenant_id
               ELSE /\ last'[c].op = "createtenantsuperuser"
                    /\ last'[c].result = "CommandError"
                    /\ frames'[c] = frames[c]
                    /\ tenant_stack'[c] = tenant_stack[c]
                    /\ db_alias_stack'[c] = db_alias_stack[c]
         /\ (Leaves(c) /\ Top(frames[c]).kind = "superuser") =>
               /\ tenant_stack'[c] = Top(frames[c]).entry.tenants
               /\ db_alias_stack'[c] = Top(frames[c]).entry.aliases
               /\ last'[c].result = "raised" <=> Top(frames[c]).cmd = "exc"
      ]_vars

\* Witness of C33: inside the block of tenant bare, a createtenantsuperuser
\* for acme has ended with the creation's exception, and bare is the
\* active tenant again.
SuperuserFailedInsideBlock ==
    \E c \in Running :
        /\ last[c].op = "createtenantsuperuser"
        /\ last[c].tenant_id = "acme"
        /\ last[c].result = "raised"
        /\ Len(frames[c]) = 1
        /\ tenant_stack[c] = <<"bare">>

----------------------------------------------------------------------------
(* migratetenants zero: an app's migrate() raises another error            *)

\* Whether seq is pre followed by nothing: IsPrefix(pre, seq).
IsPrefix(pre, seq) ==
    /\ Len(pre) <= Len(seq)
    /\ SubSeq(seq, 1, Len(pre)) = pre

\* C34: migratetenants zero.  When the migrate() of an app of a tenant
\* ends with an error other than that of an app without migrations, the
\* tenant gets one line, which reports it failed, no migrate() has been
\* requested beyond that app, and the run stands before the next tenant,
\* or at the end of the list; when handle() returns, a tenant reported
\* failed by a migrate() has no other line and the apps requested for it
\* are the installed apps up to the one that raised, a proper beginning or
\* all of them when the last one raised.
ZeroStopsTenantOnOtherError ==
    [][\A c \in Running :
         LET b == batch[c]
             n == batch'[c]
         IN  /\ (b.stage = "running" /\ b.waiting /\ ~n.waiting
                    /\ n.stage = "running"
                    /\ last[c].result = "raised"
                    /\ b.error = OtherError) =>
                   /\ n.report = Append(b.report,
                         [tenant |-> b.tenants[b.pos],
                          outcome |-> "failed", error |-> "migrate"])
                   /\ n.calls = b.calls
                   /\ n.calls[Len(n.calls)] =
                         <<b.tenants[b.pos], AppConfigs[b.app]>>
                   /\ n.pos = b.pos + 1
                   /\ n.app = 1
             /\ (b.stage = "running" /\ n.stage = "done") =>
                   \A i \in 1..Len(n.tenants) :
                       (n.report[i].outcome = "failed"
                           /\ n.report[i].error = "migrate") =>
                          LET called == AppsCalledFor(n.calls, n.tenants[i])
                          IN  /\ called # << >>
                              /\ IsPrefix(called, AppConfigs)
                              /\ AppConfigs[Len(called)] \notin b.unmigrated
                              /\ \A j \in 1..Len(n.report) :
                                    n.report[j].tenant = n.tenants[i] => j = i
      ]_vars

\* Witness of C34: a zero run over two tenants has returned; the first
\* tenant failed at its first app and the second was migrated through
\* every app.
ZeroSecondTenantAfterFailure ==
    \E c \in Running :
        /\ batch[c].stage = "done"
        /\ Len(batch[c].tenants) = 2
        /\ batch[c].report[1].outcome = "failed"
        /\ batch[c].report[1].error = "migrate"
        /\ AppsCalledFor(batch[c].calls, batch[c].tenants[1]) = <<"shop">>
        /\ batch[c].report[2].outcome = "succeeded"
        /\ AppsCalledFor(batch[c].calls, batch[c].tenants[2]) = AppConfigs

----------------------------------------------------------------------------
(* allow_migrate without a model to look at.                               *)

\* C35: for a managed app and a model name the app has no model of,
\* allow_migrate is None at every alias, registered or not, in every
\* context state; without a model name, at a registered alias, it answers
\* for an app that declares no scope what it answers for a TENANT-scoped
\* model, and for an app that declares MASTER what it answers for a
\* MASTER-scoped model.
UnknownModelNoOpinion ==
    \A c \in Contexts, app \in get_custom_apps :
        /\ \A db \in DOMAIN DATABASES \cup {"acme_db", "nowhere"},
              name \in ModelNames :
              ~ModelExists(app, name) =>
                  allow_migrate(c, db, app, name) = "None"
        /\ \A db \in DOMAIN DATABASES :
              allow_migrate(c, db, app, None) =
                  IF app \in DOMAIN AppConfigScope
                  THEN IF AppConfigScope[app] = "MASTER"
                       THEN allow_migrate(c, db, "shop", "Plan")
                       ELSE allow_migrate(c, db, "shop", "Note")
                  ELSE allow_migrate(c, db, "shop", "Cart")

\* Witness of C35: with a schema-isolated tenant active and the master
\* alias on a tenant schema, allow_migrate has no opinion on a model name
\* app shop does not have and allows the app without a model name.
NoOpinionWhereAppAllowed ==
    \E c \in Contexts :
        /\ get_tenant(c) = "sch"
        /\ ~DefaultSchemaActive(MASTER_DB_ALIAS)
        /\ allow_migrate(c, MASTER_DB_ALIAS, "shop", "Ghost") = "None"
        /\ allow_migrate(c, MASTER_DB_ALIAS, "shop", None) = "True"
        /\ allow_migrate(c, MASTER_DB_ALIAS, "core", None) = "False"

----------------------------------------------------------------------------
(* TenantRouter._get_scope over get_custom_apps()                          *)

\* One installed app: the AppConfig's name (its dotted module path), its
\* label, whether its path lies under BASE_DIR, and its tenant_scope
\* attribute (None: no attribute).
ScopeAppConfigs ==
    { [name |-> n, label |-> "shop", in_base_dir |-> d, tenant_scope |-> a] :
        n \in {"shop", "apps.shop"}, d \in BOOLEAN,
        a \in TenantScopes \cup {None} }

\* settings.CUSTOM_APPS: not set, or a list of app labels.
CustomAppsSettings ==
    { [is_set |-> FALSE, CUSTOM_APPS |-> {}] }
        \cup { [is_set |-> TRUE, CUSTOM_APPS |-> l] : l \in {{}, {"shop"}} }

\* The model's own tenant_scope attribute.
ModelScopeAttrs == TenantScopes \cup {None, "bogus"}

\* get_custom_apps(): the configured list, else the names of the installed
\* apps under BASE_DIR.
custom_apps(conf, app_configs) ==
    IF conf.is_set THEN conf.CUSTOM_APPS
    ELSE {a.name : a \in {x \in app_configs : x.in_base_dir}}

\* _get_scope(model) for a model of app_config whose tenant_scope
\* attribute is model_scope.
scope_of(conf, app_config, model_scope) ==
    IF app_config.label \notin custom_apps(conf, {app_config}) THEN "TENANT"
    ELSE IF model_scope \in TenantScopes THEN model_scope
    ELSE IF app_config.tenant_scope # None THEN app_config.tenant_scope
    ELSE "TENANT"

ScopeInit ==
    /\ \E mc \in MasterConfigs : DATABASES = [a \in {MASTER_DB_ALIAS} |-> mc]
    /\ pg_databases = {"master_db"}
    /\ batch = [c \in Contexts |-> NoBatch]
    /\ tenant_stack = [c \in Contexts |-> << >>]
    /\ db_alias_stack = [c \in Contexts |-> << >>]
    /\ schema = [c \in Contexts |-> "public"]
    /\ previous_schema = [c \in Contexts |-> [b \in BackendIds |-> Unset]]
    /\ frames = [c \in Contexts |-> << >>]
    /\ last = [c \in Contexts |-> NoResult]
    /\ \E conf \in CustomAppsSettings, a \in ScopeAppConfigs,
          ms \in ModelScopeAttrs :
          pending = [c \in Contexts |->
              IF c \in Running
              THEN [op |-> "_get_scope", conf |-> conf, app_config |-> a,
                    model_scope |-> ms]
              ELSE NoCall]

\* The router resolves the scope of the model.
GetScope(c) ==
    /\ pending[c].op = "_get_scope"
    /\ last' = [last EXCEPT ![c] =
          [op |-> "_get_scope", conf |-> pending[c].conf,
           app_config |-> pending[c].app_config,
           model_scope |-> pending[c].model_scope,
           scope |-> scope_of(pending[c].conf, pending[c].app_config,
                              pending[c].model_scope)]]
    /\ pending' = [pending EXCEPT ![c] = NoCall]
    /\ UNCHANGED <<DATABASES, pg_databases, batch, tenant_stack,
                   db_alias_stack, schema, previous_schema, frames>>

ScopeNext == \E c \in Running : GetScope(c)

ScopeSpec == ScopeInit /\ [][ScopeNext]_vars

\* Whether the app is a managed one: listed by its label in CUSTOM_APPS,
\* or, with no list configured, an app under BASE_DIR.
IsManagedApp(conf, app_config) ==
    IF conf.is_set THEN app_config.label \in conf.CUSTOM_APPS
    ELSE app_config.in_base_dir

\* C36: the scope the router resolves for a model of a managed app is the
\* model's tenant_scope when that is a TenantScope value, else the
\* tenant_scope of the app's configuration, else TENANT; for a model of an
\* app that is not managed it is TENANT.
ScopeByPrecedence ==
    \A c \in Running :
        last[c].op = "_get_scope" =>
            last[c].scope =
                IF ~IsManagedApp(last[c].conf, last[c].app_config)
                THEN "TENANT"
                ELSE IF last[c].model_scope \in TenantScopes
                THEN last[c].model_scope
                ELSE IF last[c].app_config.tenant_scope # None
                THEN last[c].app_config.tenant_scope
                ELSE "TENANT"

----------------------------------------------------------------------------
(* bootstrap: the patch list and the domain model                          *)

\* PATCHES as the configuration gives it, nothing when it gives none.
ConfiguredPatches(config) ==
    IF "PATCHES" \in DOMAIN config THEN config.PATCHES.items ELSE << >>

\* C37: once _parse has returned, the patch list is the built-in patches,
\* once each in their order, followed by the configured PATCHES in their
\* order, and the built-in patches alone when none are configured; a
\* PATCHES value that is neither a list nor a tuple makes the run fail in
\* _parse with a configuration error, with no patch imported.
PatchListAfterParse ==
    \A c \in Running :
        pending[c].op = "run" =>
            /\ pending[c].stage \in {"validate", "patches", "ready"} =>
                  pending[c].patches =
                      BuiltinPatches \o ConfiguredPatches(pending[c].config)
            /\ ("PATCHES" \in DOMAIN pending[c].config
                   /\ pending[c].config.PATCHES.type \notin {"list", "tuple"}
                   /\ pending[c].stage # "parse") =>
                  /\ pending[c].stage = "failed"
                  /\ pending[c].error = "ImproperlyConfigured"
                  /\ pending[c].imported = << >>

\* C38: a run over a configuration that does not define DOMAIN_MODEL
\* imports no patch module and never gets the application ready: when it
\* has got past validation's turn it has failed with a configuration
\* error.
DomainModelRequired ==
    \A c \in Running :
        (pending[c].op = "run"
            /\ "DOMAIN_MODEL" \notin DOMAIN pending[c].config) =>
           /\ pending[c].imported = << >>
           /\ pending[c].stage # "ready"
           /\ pending[c].stage \notin {"parse", "validate"} =>
                 /\ pending[c].stage = "failed"
                 /\ pending[c].error = "ImproperlyConfigured"

----------------------------------------------------------------------------
(* migratetenants invoked from any context                                 *)

\* The run in c is one of `migratetenants zero`.
ZeroMode(c) == "mode" \in DOMAIN batch[c]

\* The command's runs, plain and zero, started at the top level or inside
\* the caller's use_tenant blocks, which stay open while it runs.
InvokedNext ==
    \/ \E c \in Running, t \in Tenants, query_ok \in BOOLEAN :
          batch[c].stage # "running" /\ UseTenantEnter(c, t, query_ok)
    \/ \E c \in Running :
          batch[c].stage # "running" /\ UseTenantExit(c)
    \/ \E c \in Running, tenants \in TenantLists : BatchStart(c, tenants)
    \/ \E c \in Running, tenants \in TenantLists,
          unmigrated \in {{}, {"core"}} :
          ZeroStart(c, tenants, unmigrated)
    \/ \E c \in Running, construct_fails \in BOOLEAN :
          ~ZeroMode(c) /\ BatchMigrate(c, construct_fails)
    \/ \E c \in Running, construct_fails \in BOOLEAN :
          ZeroMode(c) /\ ZeroMigrate(c, construct_fails)
    \/ \E c \in Running, fails \in BOOLEAN :
          ~ZeroMode(c) /\ CallCommand(c, fails)
    \/ \E c \in Running, fails \in BOOLEAN :
          ZeroMode(c) /\ ZeroCommand(c, fails)
    \/ \E c \in Running : MigrateExit(c)
    \/ \E c \in Running : ~ZeroMode(c) /\ BatchRecord(c)
    \/ \E c \in Running : ZeroMode(c) /\ ZeroRecord(c)
    \/ \E c \in Running : BatchEnd(c)

InvokedSpec == ConcurrentInit /\ [][InvokedNext]_vars

\* C39: when handle() of migratetenants returns, the tenant stack and the
\* alias stack of the invoking context, hence their depth, the active
\* tenant and the active alias, are those the command found when it
\* started; so are they whenever the command stands between two tenants
\* or two apps.
CommandLeavesStack ==
    [][\A c \in Running :
         LET after == [tenants |-> tenant_stack'[c],
                       aliases |-> db_alias_stack'[c]]
         IN  /\ (batch[c].stage = "running" /\ batch'[c].stage = "done") =>
                   after = batch[c].entry
             /\ (batch'[c].stage = "running"
                    /\ IF frames'[c] = << >> THEN TRUE
                       ELSE Top(frames'[c]).kind # "migrate") =>
                   after = batch'[c].entry
      ]_vars

\* Witness of C39: a run invoked inside a use_tenant block of tenant bare
\* has returned after one tenant failed and another succeeded, and bare
\* is the only tenant on the stack.
ReturnedInsideCallerBlock ==
    \E c \in Running :
        /\ batch[c].stage = "done"
        /\ Len(batch[c].report) = 2
        /\ batch[c].report[1].outcome = "failed"
        /\ batch[c].report[1].error = "migrate"
        /\ batch[c].report[2].outcome = "succeeded"
        /\ batch[c].entry.tenants = <<"bare">>
        /\ tenant_stack[c] = <<"bare">>
        /\ Len(frames[c]) = 1

====
